---- MODULE Spec2Model ----
(***************************************************************************)
(* The BEEFY light-client update pipeline of the relayer                   *)
(* (crates/relayer/src/chain/substrate/update_client_state.rs): one-shot   *)
(* mode (update_client_state) and service mode                             *)
(* (update_client_state_service), together with the source chain and the   *)
(* destination chain they talk to over RPC.                                *)
(*                                                                         *)
(* A step of the pipeline is the code between two awaits; the chains move  *)
(* between the steps.  A Rust panic (unwrap on Err/None, assert!,          *)
(* arithmetic overflow under overflow checks) ends the task: pc becomes    *)
(* "panicked" and panic_cause names the place.  An Err returned with `?`   *)
(* out of the entry point ends it with pc = "returned_err".                *)
(*                                                                         *)
(* More components are driven on their own, each by its own                *)
(* specification over one frame variable: verify_commitment_signatures     *)
(* (SpecVerifier), a validator proof from build_validator_proof to         *)
(* verify_proof (SpecMerkle), the protobuf conversions of                  *)
(* signed_commitment.rs (SpecCodec), EventMonitor::reconnect of            *)
(* substrate_mointor.rs (SpecReconnect), the loop of EventMonitor::run     *)
(* (SpecMonitor), the per-event tasks it spawns (SpecEvents),              *)
(* init_subscriptions (SpecSubscription), sort_events (SpecSorter),        *)
(* ChainRuntime::run of relayer/src/chain/runtime.rs (SpecRuntime) and     *)
(* send_transfer of the ICS20 module (SpecTransfer).                       *)
(***************************************************************************)
EXTENDS Integers, Sequences, FiniteSets, TLC

\* ------------------------------------------------------------------ bounds
\* Highest block number of the source chain (block numbers are 0..MaxBlock).
MaxBlock == 2
\* Number of commitments the justification stream delivers in a run.
MaxCommitments == 2
\* First block of the second BEEFY session: blocks below it are signed by
\* the first authority set, blocks from it on by the second.
SessionBlock == 1

\* u32::MAX, the value 0u32 - 1 wraps to when overflow checks are off
\* (update_client_state.rs:114).  TLC's integers are 32-bit signed, so the
\* model uses the largest one it has; like 4294967295 it lies above every
\* block number of the chain, which is all the pipeline's behaviour depends on.
U32_MAX == 2147483647

\* ------------------------------------------------------- the source chain
\* BEEFY authority keys are small integers; key 0 stands for "no key".
\* The first authority set has three members, the second has five.
FirstAuthorities == <<1, 2, 3>>
SecondAuthorities == <<2, 6, 3, 4, 5>>
\* A key that belongs to no authority set.
OutsiderKey == 9

\* The authority set stored at block b (pallet-beefy storage read at a hash).
AuthoritiesAt(b) == IF b < SessionBlock THEN FirstAuthorities ELSE SecondAuthorities

\* format!("{}", HexDisplay::from(&authority.to_raw_vec())): the hex text of a key.
HexDisplay(key) == [hex |-> key]

\* hex::decode of a hex text: Ok(bytes) for well-formed hex, Err otherwise.
hex_decode(text) ==
    IF "hex" \in DOMAIN text THEN [ok |-> TRUE, val |-> text.hex]
    ELSE [ok |-> FALSE, val |-> 0]

\* beefy_ecdsa_to_ethereum: the 20-byte Ethereum address of a compressed key.
\* Injective on the keys of the model; address 0 is the empty (default) vector.
beefy_ecdsa_to_ethereum(key) == 100 + key

\* Keccak-256, as a free constructor: distinct inputs give distinct hashes.
HashLeaf(l) == <<"leaf", l>>
HashPair(a, b) == <<"node", a, b>>
\* The all-zero hash (root of an empty tree).
ZeroHash == <<"zero">>

\* One row of the tree to the next: pairs are hashed, an unmatched last node
\* is promoted unchanged.
RECURSIVE merkelize_row(_)
merkelize_row(row) ==
    IF Len(row) = 0 THEN <<>>
    ELSE IF Len(row) = 1 THEN <<row[1]>>
    ELSE <<HashPair(row[1], row[2])>> \o merkelize_row(SubSeq(row, 3, Len(row)))

RECURSIVE merkelize(_)
merkelize(row) ==
    IF Len(row) = 0 THEN ZeroHash
    ELSE IF Len(row) = 1 THEN row[1]
    ELSE merkelize(merkelize_row(row))

\* The sibling hashes of position idx (0-based), bottom-up; a promoted node
\* contributes nothing at its level.
RECURSIVE collect_proof(_, _)
collect_proof(row, idx) ==
    IF Len(row) <= 1 THEN <<>>
    ELSE LET sib == IF idx % 2 = 1 THEN <<row[idx]>>
                    ELSE IF idx + 2 <= Len(row) THEN <<row[idx + 2]>>
                    ELSE <<>>
         IN  sib \o collect_proof(merkelize_row(row), idx \div 2)

leaf_hashes(leaves) == [i \in 1..Len(leaves) |-> HashLeaf(leaves[i])]

merkle_root(leaves) == merkelize(leaf_hashes(leaves))

\* beefy_merkle_tree::merkle_proof(leaves, leaf_index), leaf_index 0-based.
merkle_proof(leaves, leaf_index) ==
    [root |-> merkle_root(leaves),
     proof |-> collect_proof(leaf_hashes(leaves), leaf_index),
     number_of_leaves |-> Len(leaves),
     leaf_index |-> leaf_index,
     leaf |-> leaves[leaf_index + 1]]

\* beefy_merkle_tree::verify_proof: fold the proof items over the leaf hash.
RECURSIVE fold_proof(_, _, _, _)
fold_proof(acc, proof, position, width) ==
    IF Len(proof) = 0 THEN acc
    ELSE LET b == proof[1]
             h == IF position % 2 = 1 \/ position + 1 = width
                  THEN HashPair(b, acc) ELSE HashPair(acc, b)
         IN  fold_proof(h, Tail(proof), position \div 2, ((width - 1) \div 2) + 1)

verify_proof(root, proof, number_of_leaves, leaf_index, leaf) ==
    IF leaf_index >= number_of_leaves THEN FALSE
    ELSE root = fold_proof(HashLeaf(leaf), proof, leaf_index, number_of_leaves)

\* ------------------------------------------------- signatures, commitments
\* Option<Signature>::None: an absent slot of the signature list.
AbsentSig == [present |-> FALSE]

\* A 65-byte signature: rs_ok says whether bytes 0..64 parse as (r, s), v is
\* byte 64 (the recovery id), key is the public key ECDSA recovery yields for
\* it over the commitment hash (0: recovery fails).
Sig(rs_ok, v, key) == [present |-> TRUE, rs_ok |-> rs_ok, v |-> v, key |-> key]

\* The signature of authority `key` over the commitment.
SignedBy(key) == Sig(TRUE, 0, key)

\* Signature lists, positionally aligned with the authority set `auth`.
FullSignatures(auth) == [i \in 1..Len(auth) |-> SignedBy(auth[i])]
\* Only the even leaf indices 0, 2, 4, ... have signed.
SparseSignatures(auth) ==
    [i \in 1..Len(auth) |-> IF (i - 1) % 2 = 0 THEN SignedBy(auth[i]) ELSE AbsentSig]
\* Slot 0 carries the signature of a key outside the authority set.
ForgedSignatures(auth) ==
    [i \in 1..Len(auth) |-> IF i = 1 THEN SignedBy(OutsiderKey) ELSE SignedBy(auth[i])]

SignaturePatterns(auth) ==
    {FullSignatures(auth), SparseSignatures(auth), ForgedSignatures(auth)}

\* commitment::SignedCommitment { commitment { payload, block_number,
\* validator_set_id }, signatures }.
SignedCommitmentOf(bn, sigs) ==
    [commitment |-> [payload |-> [mmr_root_of |-> bn],
                     block_number |-> bn,
                     validator_set_id |-> IF bn < SessionBlock THEN 0 ELSE 1],
     signatures |-> sigs]

\* What the justification stream can carry: the encoding of a signed
\* commitment of some block, or bytes that are no encoding of one.
MalformedRaw == [well_formed |-> FALSE]
RawOf(sc) == [well_formed |-> TRUE, value |-> sc]

StreamItems(lo) ==
    {MalformedRaw} \cup
    UNION {{RawOf(SignedCommitmentOf(bn, sigs)) :
                sigs \in SignaturePatterns(AuthoritiesAt(bn))} :
           bn \in {b \in 0..MaxBlock : b >= lo}}

\* Block number carried by a raw item (malformed bytes carry none).
RawBlockNumber(raw, dflt) ==
    IF raw.well_formed THEN raw.value.commitment.block_number ELSE dflt

\* commitment::SignedCommitment::decode(&mut &raw[..]).
decode(raw) ==
    IF raw.well_formed THEN [ok |-> TRUE, val |-> raw.value]
    ELSE [ok |-> FALSE, val |-> "DecodeError"]

\* Lines 287-292 of the service loop: every slot of the signature list is
\* unwrapped to print it; TRUE iff no unwrap meets None.
signatures_unwrap_ok(sigs) == \A i \in 1..Len(sigs) : sigs[i].present

\* ------------------------------------------------------ signature verifier
\* Keccak256::hash(&validator[1..])[12..]: the address of a recovered key.
recovered_address(key) == 100 + key

\* Index of the first proof whose leaf is addr, 0 if none.
RECURSIVE find_proof(_, _, _)
find_proof(proofs, addr, i) ==
    IF i > Len(proofs) THEN 0
    ELSE IF proofs[i].leaf = addr THEN i
    ELSE find_proof(proofs, addr, i + 1)

\* Faulty variant of verify_signature: the result of verify_proof is dropped.
verify_signature_unproved(sig, validator_set_root, validator_proofs) ==
    IF ~sig.rs_ok THEN "InvalidSignature"
    ELSE IF sig.v > 3 THEN "InvalidRecoveryId"
    ELSE IF sig.key = 0 THEN "WrongSignature"
    ELSE IF find_proof(validator_proofs, recovered_address(sig.key), 1) = 0
         THEN "ValidatorNotFound"
    ELSE "Ok"

\* The body of the loop of verify_commitment_signatures for one signature.
verify_signature(sig, validator_set_root, validator_proofs) ==
    IF ~sig.rs_ok THEN "InvalidSignature"
    ELSE IF sig.v > 3 THEN "InvalidRecoveryId"
    ELSE IF sig.key = 0 THEN "WrongSignature"
    ELSE LET i == find_proof(validator_proofs, recovered_address(sig.key), 1)
         IN  IF i = 0 THEN "ValidatorNotFound"
             ELSE IF ~verify_proof(validator_set_root, validator_proofs[i].proof,
                                   validator_proofs[i].number_of_leaves,
                                   validator_proofs[i].leaf_index,
                                   validator_proofs[i].leaf)
                  THEN "InvalidValidatorProof"
             ELSE "Ok"

\* signatures.iter().skip(start_position).take(interations).flatten(), from
\* 1-based position p on; `last` is the last position of the window.
RECURSIVE verify_from(_, _, _, _, _)
verify_from(signatures, validator_set_root, validator_proofs, p, last) ==
    IF p > last THEN "Ok"
    ELSE IF ~signatures[p].present
         THEN verify_from(signatures, validator_set_root, validator_proofs, p + 1, last)
    ELSE LET r == verify_signature(signatures[p], validator_set_root, validator_proofs)
         IN  IF r # "Ok" THEN r
             ELSE verify_from(signatures, validator_set_root, validator_proofs, p + 1, last)

\* Faulty variant of Min: take(interations) has no effect, the loop runs to
\* the end of the list.
take_everything(a, b) == a

Min(a, b) == IF a <= b THEN a ELSE b

verify_commitment_signatures(signatures, validator_set_root, validator_proofs, start_position, interations) ==
    verify_from(signatures, validator_set_root, validator_proofs,
                start_position + 1,
                Min(Len(signatures), start_position + interations))

\* -------------------------------------------------- the destination chain
\* Client ids are handed out by a counter, so the clients that exist are the
\* first client_count of this list; each id fixes its light-client type.
ClientIds == <<"10-grandpa-0", "07-tendermint-1", "10-grandpa-2", "10-grandpa-3">>

ClientTypeOf(id) ==
    IF id = "07-tendermint-1" THEN "Tendermint" ELSE "Grandpa"

\* The ClientStates storage map with n clients created, in iteration order:
\* a sequence of (client id, client type of the stored AnyClientState).
ClientStatesOf(n) == [i \in 1..n |-> [client_id |-> ClientIds[i], client_type |-> ClientTypeOf(ClientIds[i])]]

\* Faulty variant of type_matches: the client type is not compared, every
\* stored client is taken.
type_matches_any(client_type, expect_client_type) == TRUE

\* get_client_ids, lines 422-446: push the id of every entry whose
\* client_type equals expect_client_type.
type_matches(client_type, expect_client_type) == client_type = expect_client_type

RECURSIVE get_client_ids(_, _)
get_client_ids(states, expect_client_type) ==
    IF Len(states) = 0 THEN <<>>
    ELSE (IF type_matches(states[1].client_type, expect_client_type)
          THEN <<states[1].client_id>> ELSE <<>>)
         \o get_client_ids(Tail(states), expect_client_type)

\* ----------------------------------------------------------- the pipeline
VARIABLES
    mode,                    \* "oneshot" (update_client_state) or "service"
    pc,                      \* the await the task is at, or how it ended
    panic_cause,             \* the place of the panic, "" while none
    best_block,              \* source chain: number of its best block
    latest_height,           \* source chain: latest finalized height
    client_count,            \* destination chain: number of clients created
    delivered,               \* commitments taken from the justification stream
    stream_floor,            \* least block number the stream can still carry
    signed_commitment,       \* the decoded commitment being processed
    block_hash,              \* local block_hash: Option<H256>
    validator_merkle_proofs, \* result of build_validator_proof
    target_height,           \* local target_height of build_mmr_proof
    mmr_root,                \* the assembled help::MmrRoot
    client_ids,              \* client ids the submission loop has yet to visit
    read_states,             \* the ClientStates entries get_client_ids iterated
    calls,                   \* RPC requests issued for the current commitment
    sent,                    \* every submission attempt so far, in order
    rounds                   \* commitments whose submission loop has run to its end

\* The other components are driven on their own, each through one frame
\* variable that holds the arguments of a call and what the call produced.
VARIABLES
    verifier,                \* a call of verify_commitment_signatures
    merkle,                  \* a validator proof being built and verified
    codec,                   \* a value going through the protobuf conversions
    reconnect,               \* a call of EventMonitor::reconnect
    monitor,                 \* EventMonitor::run and the tasks it spawns
    subscription,            \* a call of EventMonitor::init_subscriptions
    sorter,                  \* a call of sort_events
    runtime,                 \* ChainRuntime::run and its request channel
    transfer                 \* a call of send_transfer and the bank it acts on

pipelineVars == <<mode, pc, panic_cause, best_block, latest_height, client_count,
                  delivered, stream_floor, signed_commitment, block_hash,
                  validator_merkle_proofs, target_height, mmr_root, client_ids,
                  read_states, calls, sent, rounds>>

componentVars == <<verifier, merkle, codec, reconnect, monitor>>
otherVars == <<subscription, sorter, runtime, transfer>>
frameVars == <<componentVars, otherVars>>

vars == <<pipelineVars, frameVars>>

\* The value of a frame variable of a component that is not running.
Idle == [idle |-> TRUE]

\* None of the components declared last is running.
OthersIdle ==
    /\ subscription = Idle
    /\ sorter = Idle
    /\ runtime = Idle
    /\ transfer = Idle

chainVars == <<best_block, latest_height, client_count>>
localVars == <<signed_commitment, block_hash, validator_merkle_proofs,
               target_height, mmr_root, client_ids, read_states>>

NoCommitment == [none |-> TRUE]
NoHash == [some |-> FALSE]
SomeHash(b) == [some |-> TRUE, block |-> b]
NoMmrRoot == [none |-> TRUE]

Terminated == pc \in {"panicked", "returned_err", "returned_ok"}

Init ==
    /\ mode \in {"oneshot", "service"}
    /\ pc = "subscribe"
    /\ panic_cause = ""
    /\ best_block = 0
    /\ latest_height = 0
    /\ client_count = 0
    /\ delivered = 0
    /\ stream_floor = 0
    /\ signed_commitment = NoCommitment
    /\ block_hash = NoHash
    /\ validator_merkle_proofs = <<>>
    /\ target_height = 0
    /\ mmr_root = NoMmrRoot
    /\ client_ids = <<>>
    /\ read_states = <<>>
    /\ calls = <<>>
    /\ sent = <<>>
    /\ rounds = 0
    /\ verifier = Idle
    /\ merkle = Idle
    /\ codec = Idle
    /\ reconnect = Idle
    /\ monitor = Idle
    /\ OthersIdle

\* The pipeline when one of the other components is driven on its own.
NoPipeline ==
    /\ mode = "none"
    /\ pc = "none"
    /\ panic_cause = ""
    /\ best_block = 0
    /\ latest_height = 0
    /\ client_count = 0
    /\ delivered = 0
    /\ stream_floor = 0
    /\ signed_commitment = NoCommitment
    /\ block_hash = NoHash
    /\ validator_merkle_proofs = <<>>
    /\ target_height = 0
    /\ mmr_root = NoMmrRoot
    /\ client_ids = <<>>
    /\ read_states = <<>>
    /\ calls = <<>>
    /\ sent = <<>>
    /\ rounds = 0

\* --------------------------------------------------- the chains' own steps
\* The source chain produces a block.
NewBlock ==
    /\ ~Terminated
    /\ best_block < MaxBlock
    /\ best_block' = best_block + 1
    /\ UNCHANGED <<frameVars, mode, pc, panic_cause, latest_height, client_count, delivered,
                   stream_floor, localVars, calls, sent, rounds>>

\* The source chain finalizes its next block.
Finalize ==
    /\ ~Terminated
    /\ latest_height < best_block
    /\ latest_height' = latest_height + 1
    /\ UNCHANGED <<frameVars, mode, pc, panic_cause, best_block, client_count, delivered,
                   stream_floor, localVars, calls, sent, rounds>>

\* A light client is created on the destination chain.
CreateClient ==
    /\ ~Terminated
    /\ client_count < Len(ClientIds)
    /\ client_count' = client_count + 1
    /\ UNCHANGED <<frameVars, mode, pc, panic_cause, best_block, latest_height, delivered,
                   stream_floor, localVars, calls, sent, rounds>>

\* ------------------------------------------------- RPC answers of the chains
\* rpc().block_hash(Some(number)): the hash of a block the node has, else None.
rpc_block_hash(number) == IF number <= best_block THEN SomeHash(number) ELSE NoHash

\* A storage read at Option<hash>: at that block, and at the best block of
\* the node when no hash is given.
storage_block(at) == IF at.some THEN at.block ELSE best_block

\* The MMR leaf and its proof, as the opaque blobs the chain returns.
MmrLeafBlob(leaf_of, at) == [mmr_leaf_of |-> leaf_of, at |-> at]
MmrLeafProofBlob(leaf_of, at) == [mmr_proof_of |-> leaf_of, at |-> at]

\* Faulty variant of unwrap_result: the MMR proof is not built before the
\* client list is read (the build_mmr_proof call is misplaced after it).
unwrap_result_skips_mmr(ok, next) ==
    IF ~ok THEN "panicked"
    ELSE IF next = "mmr_latest_height" THEN "get_client_ids"
    ELSE next

\* ------------------------------------------------------ the pipeline's code
\* Faulty variant of unwrap_result: the error is dropped and the pipeline
\* goes on with default values (unwrap_or_default in place of unwrap).
unwrap_result_ignored(ok, next) == next

\* `.await.unwrap()` on the result of a build step or of get_client_ids:
\* go on at `next` on Ok, panic on Err.
unwrap_result(ok, next) == IF ok THEN next ELSE "panicked"

\* Lines 50-63: authority keys to hex text and back to bytes, then to
\* Ethereum addresses; a key whose text does not decode becomes the empty vector.
validators_of(authorities) ==
    [i \in 1..Len(authorities) |->
        LET d == hex_decode(HexDisplay(authorities[i]))
        IN  IF d.ok THEN beefy_ecdsa_to_ethereum(d.val) ELSE 0]

\* Faulty variant of validator_proofs_of: the loop stops one short
\* (0..validators.len() - 1), the last validator gets no proof.
validator_proofs_skip_last(validators) ==
    [l \in 1..(Len(validators) - 1) |->
        LET proof == merkle_proof(validators, l - 1)
        IN  [proof |-> proof.proof,
             number_of_leaves |-> proof.number_of_leaves,
             leaf_index |-> proof.leaf_index,
             leaf |-> proof.leaf]]

\* Faulty variant of validator_proofs_of: the proof of validator l is stored
\* with leaf index l + 1.
validator_proofs_misindexed(validators) ==
    [l \in 1..Len(validators) |->
        LET proof == merkle_proof(validators, l - 1)
        IN  [proof |-> proof.proof,
             number_of_leaves |-> proof.number_of_leaves,
             leaf_index |-> proof.leaf_index + 1,
             leaf |-> proof.leaf]]

\* Lines 65-83: one ValidatorMerkleProof per validator, in order.
validator_proofs_of(validators) ==
    [l \in 1..Len(validators) |->
        LET proof == merkle_proof(validators, l - 1)
        IN  [proof |-> proof.proof,
             number_of_leaves |-> proof.number_of_leaves,
             leaf_index |-> proof.leaf_index,
             leaf |-> proof.leaf]]

\* Lines 95-98: the assertion of build_mmr_proof.
block_number_finalized(block_number, height) == block_number <= height

\* Lines 164-169, 233-238, 306-311: help::MmrRoot from its parts.
MmrRootOf(sc, proofs, mmr_leaf, mmr_leaf_proof) ==
    [signed_commitment |-> sc,
     validator_merkle_proofs |-> proofs,
     mmr_leaf |-> mmr_leaf,
     mmr_leaf_proof |-> mmr_leaf_proof]

\* Faulty variant of ids_after_attempt: a failed attempt ends the loop (the
\* error is propagated with `?` instead of being printed).
ids_after_attempt_break(ids, ok) == IF ok THEN Tail(ids) ELSE <<>>

\* Lines 245-257, 319-331: the for loop goes on to the next client id
\* whatever the result of the attempt was.
ids_after_attempt(ids, ok) == Tail(ids)

\* Faulty variant of after_loop: one-shot mode goes round the loop as well.
after_loop_again(m) == "recv"

\* Where the task goes when the for loop is over: update_client_state
\* returns Ok(()) (line 260), update_client_state_service takes the next
\* commitment (the `loop` of line 272).
after_loop(m) == IF m = "oneshot" THEN "returned_ok" ELSE "recv"

BlockNumber == signed_commitment.commitment.block_number

Panic(cause) ==
    /\ pc' = "panicked"
    /\ panic_cause' = cause

\* Line 204 / 269: subscribe_beefy_justifications().await?
SubscribeOk ==
    /\ pc = "subscribe"
    /\ pc' = "recv"
    /\ UNCHANGED <<frameVars, mode, panic_cause, chainVars, delivered, stream_floor,
                   localVars, calls, sent, rounds>>

SubscribeErr ==
    /\ pc = "subscribe"
    /\ pc' = "returned_err"
    /\ UNCHANGED <<frameVars, mode, panic_cause, chainVars, delivered, stream_floor,
                   localVars, calls, sent, rounds>>

\* Line 206 / 273: sub.next().await.unwrap().unwrap() on a stream that has
\* ended or yields an error.
RecvClosed ==
    /\ pc = "recv"
    /\ Panic("StreamClosed")
    /\ UNCHANGED <<frameVars, mode, chainVars, delivered, stream_floor, localVars, calls, sent, rounds>>

\* Lines 206-220 / 273-293: take the next item, decode it, destructure the
\* commitment and (service mode) print its signatures.
Recv ==
    /\ pc = "recv"
    /\ delivered < MaxCommitments
    /\ \E raw \in StreamItems(stream_floor) :
          LET d == decode(raw) IN
          /\ delivered' = delivered + 1
          /\ stream_floor' = RawBlockNumber(raw, stream_floor - 1) + 1
          /\ calls' = <<>>
          /\ block_hash' = NoHash
          /\ validator_merkle_proofs' = <<>>
          /\ target_height' = 0
          /\ mmr_root' = NoMmrRoot
          /\ client_ids' = <<>>
          /\ read_states' = <<>>
          /\ IF ~d.ok
             THEN /\ Panic("DecodeError")
                  /\ signed_commitment' = NoCommitment
             ELSE IF mode = "service" /\ ~signatures_unwrap_ok(d.val.signatures)
             THEN /\ Panic("AbsentSignature")
                  /\ signed_commitment' = d.val
             ELSE /\ pc' = "vp_block_hash"
                  /\ signed_commitment' = d.val
                  /\ UNCHANGED panic_cause
    /\ UNCHANGED <<frameVars, mode, chainVars, sent, rounds>>

\* build_validator_proof, lines 41-44: resolve the hash of block_number.
ValidatorBlockHash ==
    /\ pc = "vp_block_hash"
    /\ \E ok \in BOOLEAN :
          /\ calls' = Append(calls, [op |-> "block_hash", number |-> BlockNumber, ok |-> ok])
          /\ pc' = unwrap_result(ok, "vp_authorities")
          /\ panic_cause' = IF pc' = "panicked" THEN "ValidatorProofError" ELSE panic_cause
          /\ block_hash' = IF ok THEN rpc_block_hash(BlockNumber) ELSE block_hash
    /\ UNCHANGED <<frameVars, mode, chainVars, delivered, stream_floor, signed_commitment,
                   validator_merkle_proofs, target_height, mmr_root, client_ids,
                   read_states, sent, rounds>>

\* build_validator_proof, lines 47-83: read the authorities at block_hash and
\* build the proofs.
ValidatorAuthorities ==
    /\ pc = "vp_authorities"
    /\ \E ok \in BOOLEAN :
          /\ calls' = Append(calls, [op |-> "authorities", at |-> block_hash,
                                     read_block |-> storage_block(block_hash), ok |-> ok])
          /\ pc' = unwrap_result(ok, "mmr_latest_height")
          /\ panic_cause' = IF pc' = "panicked" THEN "ValidatorProofError" ELSE panic_cause
          /\ validator_merkle_proofs' =
                IF ok THEN validator_proofs_of(validators_of(
                               AuthoritiesAt(storage_block(block_hash))))
                ELSE <<>>
    /\ UNCHANGED <<frameVars, mode, chainVars, delivered, stream_floor, signed_commitment,
                   block_hash, target_height, mmr_root, client_ids, read_states, sent, rounds>>

\* build_mmr_proof, lines 92-99: query the latest height, then the assertion.
MmrLatestHeight ==
    /\ pc = "mmr_latest_height"
    /\ \E ok \in BOOLEAN :
          /\ calls' = Append(calls, [op |-> "latest_height", height |-> latest_height, ok |-> ok])
          /\ IF ~ok
             THEN /\ pc' = unwrap_result(FALSE, "mmr_block_hash")
                  /\ panic_cause' = IF pc' = "panicked" THEN "MmrProofError" ELSE panic_cause
             ELSE IF ~block_number_finalized(BlockNumber, latest_height)
             THEN Panic("AssertBlockNumber")
             ELSE /\ pc' = "mmr_block_hash"
                  /\ UNCHANGED panic_cause
    /\ UNCHANGED <<frameVars, mode, chainVars, delivered, stream_floor, localVars, sent, rounds>>

\* build_mmr_proof, lines 102-117: resolve the hash of block_number, compute
\* target_height = block_number - 1 (u32: panics under overflow checks, wraps
\* without them) and unwrap the hash.
MmrBlockHash ==
    /\ pc = "mmr_block_hash"
    /\ \E ok \in BOOLEAN, overflow_checks \in BOOLEAN :
          LET h == rpc_block_hash(BlockNumber) IN
          /\ calls' = Append(calls, [op |-> "block_hash", number |-> BlockNumber, ok |-> ok])
          /\ IF ~ok
             THEN /\ pc' = unwrap_result(FALSE, "mmr_generate_proof")
                  /\ panic_cause' = IF pc' = "panicked" THEN "MmrProofError" ELSE panic_cause
                  /\ UNCHANGED <<block_hash, target_height>>
             ELSE IF BlockNumber = 0 /\ overflow_checks
             THEN /\ Panic("SubtractOverflow")
                  /\ block_hash' = h
                  /\ UNCHANGED target_height
             ELSE IF ~h.some
             THEN /\ Panic("BlockHashNone")
                  /\ block_hash' = h
                  /\ UNCHANGED target_height
             ELSE /\ pc' = "mmr_generate_proof"
                  /\ block_hash' = h
                  /\ target_height' = IF BlockNumber = 0 THEN U32_MAX ELSE BlockNumber - 1
                  /\ UNCHANGED panic_cause
    /\ UNCHANGED <<frameVars, mode, chainVars, delivered, stream_floor, signed_commitment,
                   validator_merkle_proofs, mmr_root, client_ids, read_states, sent, rounds>>

\* build_mmr_proof, lines 115-129, and the assembly of the MmrRoot: fetch the
\* leaf and proof of target_height at block_hash.  The chain has a leaf for
\* every block below the one it is asked at.
MmrGenerateProof ==
    /\ pc = "mmr_generate_proof"
    /\ \E ok \in {b \in BOOLEAN : b => (block_hash.some /\ target_height < block_hash.block)} :
          /\ calls' = Append(calls, [op |-> "mmr_generate_proof", leaf_of |-> target_height,
                                     at |-> block_hash, ok |-> ok])
          /\ pc' = unwrap_result(ok, "get_client_ids")
          /\ panic_cause' = IF pc' = "panicked" THEN "MmrProofError" ELSE panic_cause
          /\ mmr_root' =
                IF ok THEN MmrRootOf(signed_commitment, validator_merkle_proofs,
                                     MmrLeafBlob(target_height, block_hash),
                                     MmrLeafProofBlob(target_height, block_hash))
                ELSE mmr_root
    /\ UNCHANGED <<frameVars, mode, chainVars, delivered, stream_floor, signed_commitment,
                   block_hash, validator_merkle_proofs, target_height, client_ids,
                   read_states, sent, rounds>>

\* Faulty variant of GetClientIds: the client list read for the first
\* commitment is kept, and later commitments go to the clients of the
\* commitment before them without a read of the destination chain.
GetClientIds_cached ==
    /\ pc = "get_client_ids"
    /\ \E ok \in BOOLEAN :
          LET Previous(e) == e.n = delivered - 1
              previous == SelectSeq(sent, Previous)
              cached == [i \in 1..Len(previous) |-> previous[i].client_id]
              fresh == get_client_ids(ClientStatesOf(client_count), "Grandpa")
          IN
          /\ calls' = Append(calls, [op |-> "client_states", ok |-> ok])
          /\ pc' = unwrap_result(ok, "submit")
          /\ panic_cause' = IF pc' = "panicked" THEN "GetClientIdsError" ELSE panic_cause
          /\ read_states' = IF ok THEN ClientStatesOf(client_count) ELSE read_states
          /\ client_ids' = IF ~ok THEN client_ids
                           ELSE IF delivered > 1 THEN cached ELSE fresh
    /\ UNCHANGED <<frameVars, mode, chainVars, delivered, stream_floor, signed_commitment,
                   block_hash, validator_merkle_proofs, target_height, mmr_root, sent, rounds>>

\* Lines 242-244 / 316-318: get_client_ids(target_client, Grandpa).unwrap().
GetClientIds ==
    /\ pc = "get_client_ids"
    /\ \E ok \in BOOLEAN :
          /\ calls' = Append(calls, [op |-> "client_states", ok |-> ok])
          /\ pc' = unwrap_result(ok, "submit")
          /\ panic_cause' = IF pc' = "panicked" THEN "GetClientIdsError" ELSE panic_cause
          /\ read_states' = IF ok THEN ClientStatesOf(client_count) ELSE read_states
          /\ client_ids' = IF ok THEN get_client_ids(ClientStatesOf(client_count), "Grandpa")
                           ELSE client_ids
    /\ UNCHANGED <<frameVars, mode, chainVars, delivered, stream_floor, signed_commitment,
                   block_hash, validator_merkle_proofs, target_height, mmr_root, sent, rounds>>

\* Lines 245-257 / 319-331: one turn of the for loop: submit the MmrRoot to
\* the next client id; the result is printed.
Send ==
    /\ pc = "submit"
    /\ client_ids # <<>>
    /\ \E ok \in BOOLEAN :
          /\ sent' = Append(sent, [n |-> delivered, client_id |-> Head(client_ids),
                                   mmr_root |-> mmr_root, ok |-> ok])
          /\ client_ids' = ids_after_attempt(client_ids, ok)
          /\ calls' = Append(calls, [op |-> "update_client_state",
                                     client_id |-> Head(client_ids), ok |-> ok])
    /\ UNCHANGED <<frameVars, mode, pc, panic_cause, chainVars, delivered, stream_floor,
                   signed_commitment, block_hash, validator_merkle_proofs,
                   target_height, mmr_root, read_states, rounds>>

\* The for loop is over: one-shot mode returns Ok(()) (line 260), service
\* mode goes round its loop (line 332 back to 273).
SubmitDone ==
    /\ pc = "submit"
    /\ client_ids = <<>>
    /\ pc' = after_loop(mode)
    /\ rounds' = rounds + 1
    /\ UNCHANGED <<frameVars, mode, panic_cause, chainVars, delivered, stream_floor,
                   localVars, calls, sent>>

Next ==
    \/ NewBlock
    \/ Finalize
    \/ CreateClient
    \/ SubscribeOk
    \/ SubscribeErr
    \/ RecvClosed
    \/ Recv
    \/ ValidatorBlockHash
    \/ ValidatorAuthorities
    \/ MmrLatestHeight
    \/ MmrBlockHash
    \/ MmrGenerateProof
    \/ GetClientIds
    \/ Send
    \/ SubmitDone

Spec == Init /\ [][Next]_vars

\* ------------------------------------------------------------ the claims
\* Client ids of the submission attempts made for commitment number n, in order.
AttemptIds(n) ==
    LET OfN(e) == e.n = n
        es == SelectSeq(sent, OfN)
    IN  [i \in 1..Len(es) |-> es[i].client_id]

\* Number of submission attempts made to client id for commitment number n.
AttemptCount(n, id) ==
    Cardinality({i \in 1..Len(sent) : sent[i].n = n /\ sent[i].client_id = id})

SeqRange(q) == {q[i] : i \in 1..Len(q)}

\* Block number of the commitment a submission attempt carried.
SentBlockNumber(e) == e.mmr_root.signed_commitment.commitment.block_number

\* C1. Partial-failure isolation: while one commitment's MmrRoot is submitted
\* to the list of matching clients, whatever the results of the attempts made
\* so far (failures included), every client of the list has either received
\* exactly one attempt or is still to be visited; when the loop is over every
\* client of the list has received exactly one attempt.
C1_PartialFailureIsolation ==
    pc = "submit" =>
        /\ AttemptIds(delivered) \o client_ids = get_client_ids(read_states, "Grandpa")
        /\ \A id \in SeqRange(get_client_ids(read_states, "Grandpa")) :
              AttemptCount(delivered, id) = (IF id \in SeqRange(client_ids) THEN 0 ELSE 1)

\* Witness of C1: three matching clients, the attempt to the second one failed,
\* the first and the third were attempted (successfully) and the loop is over.
C1_Witness ==
    /\ pc = "submit"
    /\ client_ids = <<>>
    /\ LET OfN(e) == e.n = delivered
           es == SelectSeq(sent, OfN)
       IN  /\ Len(es) = 3
           /\ es[1].ok /\ ~es[2].ok /\ es[3].ok

\* The panic was caused by the input or the environment: malformed bytes, a
\* closed stream, a failing RPC, a block that is not finalized or not known,
\* or block number 0.
InputFault ==
    panic_cause \in {"StreamClosed", "DecodeError", "ValidatorProofError", "MmrProofError",
                     "GetClientIdsError", "AssertBlockNumber", "BlockHashNone",
                     "SubtractOverflow"}

\* Commitment k+1 is taken only when every attempt for commitment k is over:
\* no attempt belongs to a commitment not yet taken, none is made for the
\* current commitment before the loop, and none is outstanding at a take.
SequentialTakes ==
    /\ \A i \in 1..Len(sent) : sent[i].n \in 1..delivered
    /\ pc \in {"vp_block_hash", "vp_authorities", "mmr_latest_height", "mmr_block_hash",
               "mmr_generate_proof", "get_client_ids"} => AttemptIds(delivered) = <<>>
    /\ pc = "recv" => client_ids = <<>>

\* The submissions are in commitment order and in non-decreasing block order.
SubmissionsInOrder ==
    \A i, j \in 1..Len(sent) :
        i < j => /\ sent[i].n <= sent[j].n
                 /\ SentBlockNumber(sent[i]) <= SentBlockNumber(sent[j])

\* C2 (as stated). Sequential causality in service mode: takes are sequential,
\* submissions are in order and never interleaved, and N well-formed
\* commitments with strictly increasing block numbers yield N MmrRoots: when
\* the service waits for the next commitment, or has stopped without a fault
\* of the input or of an RPC, every commitment taken has been through its
\* submission loop.
C2_SequentialCausality ==
    mode = "service" =>
        /\ SequentialTakes
        /\ SubmissionsInOrder
        /\ (pc = "recv" \/ (Terminated /\ ~InputFault)) => rounds = delivered

\* The finality guard of build_mmr_proof was violated for the current
\* commitment: the latest height was obtained and is below block_number.
GuardViolated ==
    \E i \in 1..Len(calls) :
        /\ calls[i].op = "latest_height"
        /\ calls[i].ok
        /\ calls[i].height < BlockNumber

\* C3 (as stated). Finality guard: when block_number is above the latest
\* finalized height, build_mmr_proof returns an error to its caller (whose
\* unwrap then reports it), the latest-height query is its last RPC call, and
\* no MmrRoot is assembled.
C3_FinalityGuard ==
    GuardViolated =>
        /\ calls[Len(calls)].op = "latest_height"
        /\ mmr_root = NoMmrRoot
        /\ AttemptIds(delivered) = <<>>
        /\ panic_cause = "MmrProofError"

\* C4 (as stated). A commitment that fails to decode, or whose attempt is
\* aborted by the finality guard, never ends the service loop.
C4_FailureNotFatal ==
    ~(mode = "service" /\ pc = "panicked"
      /\ panic_cause \in {"DecodeError", "AssertBlockNumber"})

\* A proof-building RPC of the current commitment failed.
BuildFailed ==
    \E i \in 1..Len(calls) :
        /\ calls[i].op \in {"block_hash", "authorities", "latest_height", "mmr_generate_proof"}
        /\ ~calls[i].ok

\* C5. No partial submission: if building the validator proofs or the MMR
\* proof of a commitment failed with an RPC error, no update transaction for
\* that commitment is submitted to any client, and no MmrRoot is assembled.
C5_NoPartialSubmission ==
    BuildFailed =>
        /\ AttemptIds(delivered) = <<>>
        /\ \A i \in 1..Len(calls) : calls[i].op # "update_client_state"
        /\ pc = "panicked"

\* Witness of C5: with a matching client on the destination chain, the MMR
\* proof fetch failed after the validator proofs were built; nothing was sent.
C5_Witness ==
    /\ BuildFailed
    /\ client_count >= 1
    /\ validator_merkle_proofs # <<>>
    /\ calls[Len(calls)].op = "mmr_generate_proof"
    /\ AttemptIds(delivered) = <<>>

\* The validator-set root of the authority set stored at block b.
ValidatorSetRoot(b) == merkle_root(validators_of(AuthoritiesAt(b)))

\* The verdict of the signature verifier on a submitted MmrRoot: all its
\* signatures, against the root of the set stored at its block_number.
VerifierVerdict(root) ==
    verify_commitment_signatures(root.signed_commitment.signatures,
                                 ValidatorSetRoot(root.signed_commitment.commitment.block_number),
                                 root.validator_merkle_proofs,
                                 0, Len(root.signed_commitment.signatures))

\* C6 (as stated). Only verified commitments are submitted: every MmrRoot
\* submitted to a client carries signatures the signature verifier accepts
\* against the validator-set root; none for which it returns a proof error.
C6_SubmittedAreVerified ==
    \A i \in 1..Len(sent) : VerifierVerdict(sent[i].mmr_root) = "Ok"

\* C7 (as stated). The validator set build_validator_proof reads, and builds
\* its proofs from, is the one stored at the commitment's block_number,
\* whatever the block-hash resolution returned.
C7_ValidatorSetAtBlockNumber ==
    /\ \A i \in 1..Len(calls) :
          (calls[i].op = "authorities" /\ calls[i].ok) => calls[i].read_block = BlockNumber
    /\ validator_merkle_proofs # <<>> =>
          validator_merkle_proofs =
              validator_proofs_of(validators_of(AuthoritiesAt(BlockNumber)))

\* The finality guard of build_mmr_proof passed for the current commitment.
GuardPassed ==
    \E i \in 1..Len(calls) :
        /\ calls[i].op = "latest_height"
        /\ calls[i].ok
        /\ BlockNumber <= calls[i].height

\* C8 (as stated). For every block_number that passes the finality guard,
\* build_mmr_proof gets as far as its request (it does not abort on the
\* subtraction), requests leaf and proof of target index block_number - 1 at
\* the hash of block_number, and the MmrRoot carries the two blobs unchanged.
C8_MmrTargetIndex ==
    GuardPassed =>
        /\ panic_cause # "SubtractOverflow"
        /\ \A i \in 1..Len(calls) :
              calls[i].op = "mmr_generate_proof" =>
                  /\ calls[i].leaf_of = BlockNumber - 1
                  /\ calls[i].at = SomeHash(BlockNumber)
        /\ mmr_root # NoMmrRoot =>
              /\ mmr_root.mmr_leaf = MmrLeafBlob(BlockNumber - 1, SomeHash(BlockNumber))
              /\ mmr_root.mmr_leaf_proof = MmrLeafProofBlob(BlockNumber - 1, SomeHash(BlockNumber))

\* The ids of the entries of type Grandpa among those get_client_ids iterated.
GrandpaIdsRead ==
    {read_states[i].client_id :
        i \in {j \in 1..Len(read_states) : read_states[j].client_type = "Grandpa"}}

\* The submission loop of the current commitment has run to its end.
LoopOver ==
    \/ pc = "submit" /\ client_ids = <<>>
    \/ delivered >= 1 /\ rounds = delivered

\* C9. For a commitment whose MmrRoot is submitted, every client whose stored
\* client state has type Grandpa receives exactly one submission attempt and
\* no client of another type receives any.
C9_OnlyMatchingClients ==
    /\ \A i \in 1..Len(sent) : ClientTypeOf(sent[i].client_id) = "Grandpa"
    /\ LoopOver =>
          \A id \in SeqRange(ClientIds) :
              AttemptCount(delivered, id) = (IF id \in GrandpaIdsRead THEN 1 ELSE 0)

\* Witness of C9: the destination chain holds three Grandpa clients and one
\* of another type; the loop is over with three attempts made.
C9_Witness ==
    /\ LoopOver
    /\ Len(read_states) = 4
    /\ Len(AttemptIds(delivered)) = 3

\* The authority set build_validator_proof read for the current commitment.
AuthoritiesRead ==
    LET i == CHOOSE j \in 1..Len(calls) : calls[j].op = "authorities" /\ calls[j].ok
    IN  AuthoritiesAt(calls[i].read_block)

C11_OneShotTakesOne ==
    mode = "oneshot" =>
        /\ delivered <= 1
        /\ rounds <= 1
        /\ pc = "returned_ok" => (delivered = 1 /\ rounds = 1 /\ client_ids = <<>>)
        /\ rounds = 1 => pc = "returned_ok"
        /\ sent # <<>> => pc \in {"submit", "returned_ok"}

\* Witness of C11: one-shot mode has returned Ok after three attempts that
\* all failed.
C11_Witness ==
    /\ mode = "oneshot"
    /\ pc = "returned_ok"
    /\ Len(sent) = 3
    /\ \A i \in 1..Len(sent) : ~sent[i].ok

\* The RPC requests of one commitment, in the order the pipeline issues them
\* up to the submissions.
StepOrder ==
    <<"block_hash", "authorities", "latest_height", "block_hash",
      "mmr_generate_proof", "client_states">>

\* C12. Fixed order of the steps of a commitment: it is decoded before any
\* request is made; the requests are issued in the order validator proofs,
\* MMR proof, client list, submissions, each only after the one before it
\* succeeded; the MmrRoot exists only once both proofs are built, and every
\* submission follows the assembly and carries the assembled MmrRoot.
C12_StepOrder ==
    /\ calls # <<>> => signed_commitment # NoCommitment
    /\ \A i \in 1..Len(calls) :
          /\ i <= Len(StepOrder) => calls[i].op = StepOrder[i]
          /\ i > Len(StepOrder) => calls[i].op = "update_client_state"
          /\ (i < Len(calls) /\ i <= Len(StepOrder)) => calls[i].ok
    /\ mmr_root # NoMmrRoot =>
          /\ Len(calls) >= 5
          /\ mmr_root = MmrRootOf(signed_commitment, validator_merkle_proofs,
                                  mmr_root.mmr_leaf, mmr_root.mmr_leaf_proof)
          /\ validator_merkle_proofs # <<>>
    /\ \A i \in 1..Len(sent) :
          sent[i].n = delivered => (mmr_root # NoMmrRoot /\ sent[i].mmr_root = mmr_root)

\* Witness of C12: a commitment has gone through all its steps in service
\* mode and two clients have been submitted to.
C12_Witness ==
    /\ mode = "service"
    /\ Len(calls) = Len(StepOrder) + 2
    /\ calls[Len(calls)].op = "update_client_state"
    /\ Len(AttemptIds(delivered)) = 2

\* ------------------------------------ verify_commitment_signatures, called
\* Longest signature list handed to the verifier.
MaxSigs == 3

\* The validator set the commitment is verified against, its Merkle root and
\* the proofs build_validator_proof makes for it.
VerifierAuthorities == SubSeq(FirstAuthorities, 1, 2)
VerifierValidators ==
    [i \in 1..Len(VerifierAuthorities) |-> beefy_ecdsa_to_ethereum(VerifierAuthorities[i])]
VerifierRoot == merkle_root(VerifierValidators)
GoodProofs == validator_proofs_of(VerifierValidators)

\* A proof whose leaf is still the validator's address but whose sibling
\* hashes are not those of the tree.
Tampered(proof) == [proof EXCEPT !.proof = <<ZeroHash>> \o Tail(@)]

\* One slot of the signature list: absent, signed by a member, signed by a
\* key outside the set, or 65 bytes that fail at one of the three parses.
SlotValues ==
    {AbsentSig}
    \cup {SignedBy(VerifierAuthorities[i]) : i \in 1..Len(VerifierAuthorities)}
    \cup {SignedBy(OutsiderKey), Sig(FALSE, 0, 1), Sig(TRUE, 4, 1), Sig(TRUE, 0, 0)}

SignatureLists == UNION {[1..n -> SlotValues] : n \in 0..MaxSigs}

\* The validator_proofs argument: the built proofs, in order or reversed,
\* with one missing, none at all, one tampered with, or a tampered copy
\* before or after the built ones.
ProofLists ==
    {GoodProofs,
     <<GoodProofs[2], GoodProofs[1]>>,
     Tail(GoodProofs),
     <<>>,
     <<Tampered(GoodProofs[1]), GoodProofs[2]>>,
     <<Tampered(GoodProofs[1])>> \o GoodProofs,
     GoodProofs \o <<Tampered(GoodProofs[1])>>}

\* Faulty variant of loop_done: a call that examined no signature fails.
loop_done_quorum(examined) ==
    IF Len(examined) = 0 THEN "ValidatorNotFound" ELSE "Ok"

\* Line 401: the for loop is over, Ok(()).
loop_done(examined) == "Ok"

\* Faulty variant of verify_trace: the loop goes on after a failed signature
\* and the call returns the error of the last one that failed.
RECURSIVE verify_trace_all(_, _, _, _, _, _)
verify_trace_all(signatures, validator_set_root, validator_proofs, p, last, examined) ==
    IF p > last THEN [result |-> "Ok", examined |-> examined]
    ELSE IF ~signatures[p].present
         THEN verify_trace_all(signatures, validator_set_root, validator_proofs,
                               p + 1, last, examined)
    ELSE LET r == verify_signature(signatures[p], validator_set_root, validator_proofs)
             rest == verify_trace_all(signatures, validator_set_root, validator_proofs,
                                      p + 1, last, Append(examined, p))
         IN  IF r # "Ok" /\ rest.result = "Ok"
             THEN [result |-> r, examined |-> rest.examined]
             ELSE rest

\* The for loop of lines 349-399 from 1-based position p on, with the
\* positions the loop body has run for: flatten() passes over a None slot,
\* the first error returns.
RECURSIVE verify_trace(_, _, _, _, _, _)
verify_trace(signatures, validator_set_root, validator_proofs, p, last, examined) ==
    IF p > last THEN [result |-> loop_done(examined), examined |-> examined]
    ELSE IF ~signatures[p].present
         THEN verify_trace(signatures, validator_set_root, validator_proofs,
                           p + 1, last, examined)
    ELSE LET r == verify_signature(signatures[p], validator_set_root, validator_proofs)
         IN  IF r # "Ok" THEN [result |-> r, examined |-> Append(examined, p)]
             ELSE verify_trace(signatures, validator_set_root, validator_proofs,
                               p + 1, last, Append(examined, p))

VerifierInit ==
    /\ NoPipeline
    /\ \E sigs \in SignatureLists, proofs \in ProofLists :
       \E start \in 0..MaxSigs, iters \in 0..MaxSigs :
          verifier = [signatures |-> sigs,
                      validator_set_root |-> VerifierRoot,
                      validator_proofs |-> proofs,
                      start_position |-> start,
                      interations |-> iters,
                      result |-> "pending",
                      examined |-> <<>>]
    /\ merkle = Idle
    /\ codec = Idle
    /\ reconnect = Idle
    /\ monitor = Idle
    /\ OthersIdle

\* verify_commitment_signatures runs on the arguments of the frame.
VerifyCall ==
    /\ verifier.result = "pending"
    /\ LET run == verify_trace(verifier.signatures, verifier.validator_set_root,
                               verifier.validator_proofs,
                               verifier.start_position + 1,
                               Min(Len(verifier.signatures),
                                   verifier.start_position + verifier.interations),
                               <<>>)
       IN  verifier' = [verifier EXCEPT !.result = run.result,
                                        !.examined = run.examined]
    /\ UNCHANGED <<pipelineVars, otherVars, monitor, merkle, codec, reconnect>>

VerifierNext == VerifyCall

SpecVerifier == VerifierInit /\ [][VerifierNext]_vars

\* The call of the frame has returned.
Verified == verifier # Idle /\ verifier.result # "pending"

\* Positions (1-based) of the window skip(start_position).take(interations),
\* and those of them that hold a signature.
Window ==
    {p \in 1..Len(verifier.signatures) :
        /\ verifier.start_position < p
        /\ p <= verifier.start_position + verifier.interations}
PresentWindow == {p \in Window : verifier.signatures[p].present}

\* C13. The verifier examines only present signatures of the window
\* start_position <= position < start_position + interations, in list order
\* without passing over one, and all of them when it returns Ok; an error
\* comes from an examined signature only, so absent slots and signatures
\* outside the window neither are examined nor can fail the call.
C13_WindowOnly ==
    Verified =>
        /\ SeqRange(verifier.examined) \subseteq PresentWindow
        /\ \A i \in 1..Len(verifier.examined) :
              \A p \in PresentWindow :
                 p < verifier.examined[i] =>
                    \E j \in 1..(i - 1) : verifier.examined[j] = p
        /\ verifier.result = "Ok" => SeqRange(verifier.examined) = PresentWindow
        /\ verifier.result # "Ok" => verifier.examined # <<>>
        /\ verifier.result =
              verify_commitment_signatures(verifier.signatures,
                  verifier.validator_set_root, verifier.validator_proofs,
                  verifier.start_position, verifier.interations)

\* Witness of C13: the call returned Ok having examined the one present
\* signature of its window, with an absent slot inside the window and a
\* signature that would fail outside it.
C13_Witness ==
    /\ Verified
    /\ verifier.result = "Ok"
    /\ Len(verifier.examined) = 1
    /\ \E p \in Window : ~verifier.signatures[p].present
    /\ \E p \in 1..Len(verifier.signatures) :
          /\ p \notin Window
          /\ verifier.signatures[p].present
          /\ ~verifier.signatures[p].rs_ok

\* The proof the loop of lines 377-395 stops at for the signature at p.
MatchedProof(p) ==
    LET addr == recovered_address(verifier.signatures[p].key)
        i == CHOOSE i \in 1..Len(verifier.validator_proofs) :
                /\ verifier.validator_proofs[i].leaf = addr
                /\ \A j \in 1..(i - 1) : verifier.validator_proofs[j].leaf # addr
    IN  verifier.validator_proofs[i]

\* C14. Positional alignment: when the call returns Ok, every examined
\* signature at list position i (0-based) was matched with a proof of leaf
\* index i, and i is below the number of leaves of the validator set.
C14_PositionalAlignment ==
    (Verified /\ verifier.result = "Ok") =>
        \A k \in 1..Len(verifier.examined) :
           LET p == verifier.examined[k]
           IN  /\ MatchedProof(p).leaf_index = p - 1
               /\ p - 1 < MatchedProof(p).number_of_leaves

\* The supplied proofs whose leaf is the address recovered from the
\* signature at position p.
ProofsWithLeaf(p) ==
    {i \in 1..Len(verifier.validator_proofs) :
        verifier.validator_proofs[i].leaf =
            recovered_address(verifier.signatures[p].key)}

ProofVerifies(i) ==
    verify_proof(verifier.validator_set_root,
                 verifier.validator_proofs[i].proof,
                 verifier.validator_proofs[i].number_of_leaves,
                 verifier.validator_proofs[i].leaf_index,
                 verifier.validator_proofs[i].leaf)

\* The signature at p parses and a public key is recovered from it.
Recovers(p) ==
    /\ verifier.signatures[p].rs_ok
    /\ verifier.signatures[p].v <= 3
    /\ verifier.signatures[p].key # 0

\* The result of the loop body for the k-th examined signature: an examined
\* signature that is not the last one passed, the last one carries the
\* result of the call.
OutcomeOf(k) ==
    IF k < Len(verifier.examined) THEN "Ok" ELSE verifier.result

\* C15. Membership proof per examined signature whose key is recovered:
\* ValidatorNotFound when no supplied proof has the recovered address as its
\* leaf; InvalidValidatorProof when proofs with that leaf are supplied and
\* none verifies against the validator-set root; success only when a
\* supplied proof with that leaf verifies.
C15_MembershipProof ==
    Verified =>
        \A k \in 1..Len(verifier.examined) :
           LET p == verifier.examined[k]
           IN  Recovers(p) =>
                 /\ ProofsWithLeaf(p) = {} <=> OutcomeOf(k) = "ValidatorNotFound"
                 /\ (ProofsWithLeaf(p) # {} /\ \A i \in ProofsWithLeaf(p) : ~ProofVerifies(i))
                       => OutcomeOf(k) = "InvalidValidatorProof"
                 /\ OutcomeOf(k) = "InvalidValidatorProof"
                       => \E i \in ProofsWithLeaf(p) : ~ProofVerifies(i)
                 /\ OutcomeOf(k) = "Ok"
                       => \E i \in ProofsWithLeaf(p) : ProofVerifies(i)

\* Witness of C15: one call in which a signature passed on a verifying proof
\* and the next one failed on a proof with its leaf that does not verify.
C15_Witness ==
    /\ Verified
    /\ verifier.result = "InvalidValidatorProof"
    /\ Len(verifier.examined) = 2
    /\ \E i \in ProofsWithLeaf(verifier.examined[1]) : ProofVerifies(i)
    /\ ProofsWithLeaf(verifier.examined[2]) # {}

\* C16. No quorum: the call returns Ok whenever every present signature of
\* the window passes the loop body, however few they are; in particular
\* when the window holds no present signature at all.
C16_NoQuorum ==
    Verified =>
        /\ PresentWindow = {} => verifier.result = "Ok"
        /\ (\A p \in PresentWindow :
               verify_signature(verifier.signatures[p], verifier.validator_set_root,
                                verifier.validator_proofs) = "Ok")
              => verifier.result = "Ok"

\* Witness of C16: Ok with nothing examined, on a list that is not empty and
\* a window that starts inside it (all its slots are absent).
C16_Witness ==
    /\ Verified
    /\ verifier.result = "Ok"
    /\ verifier.examined = <<>>
    /\ Window # {}
    /\ verifier.interations > 0

\* --------------------------------- a validator proof, built and verified
\* Largest validator set a proof is built for.
MaxLeaves == 6

\* The validators vector of build_validator_proof for a set of n authorities.
ValidatorsOfSize(n) == [i \in 1..n |-> beefy_ecdsa_to_ethereum(i)]

MerkleInit ==
    /\ NoPipeline
    /\ \E n \in 1..MaxLeaves :
       \E l \in 0..(n - 1) :
          merkle = [validators |-> ValidatorsOfSize(n),
                    l |-> l,
                    root |-> ZeroHash,
                    proof |-> Idle,
                    changed |-> "nothing",
                    verdict |-> "pending"]
    /\ verifier = Idle
    /\ codec = Idle
    /\ reconnect = Idle
    /\ monitor = Idle
    /\ OthersIdle

\* build_validator_proof, iteration l of the loop of lines 66-81, and the
\* validator-set root the proofs are made against.
BuildProof ==
    /\ merkle.proof = Idle
    /\ merkle' = [merkle EXCEPT
                    !.proof = validator_proofs_of(merkle.validators)[merkle.l + 1],
                    !.root = merkle_root(merkle.validators)]
    /\ UNCHANGED <<pipelineVars, otherVars, monitor, verifier, codec, reconnect>>

\* Between building and verifying, the leaf of the proof is replaced by
\* another address.
ChangeLeaf ==
    /\ merkle.proof # Idle
    /\ merkle.changed = "nothing"
    /\ merkle.verdict = "pending"
    /\ \E a \in {beefy_ecdsa_to_ethereum(k) : k \in 1..MaxLeaves}
                \cup {beefy_ecdsa_to_ethereum(OutsiderKey)} :
          /\ a # merkle.proof.leaf
          /\ merkle' = [merkle EXCEPT !.proof.leaf = a, !.changed = "leaf"]
    /\ UNCHANGED <<pipelineVars, otherVars, monitor, verifier, codec, reconnect>>

\* Between building and verifying, one sibling hash of the proof is replaced
\* by another hash.
ChangeSibling ==
    /\ merkle.proof # Idle
    /\ merkle.changed = "nothing"
    /\ merkle.verdict = "pending"
    /\ \E k \in 1..Len(merkle.proof.proof) :
       \E h \in {ZeroHash, HashLeaf(merkle.proof.leaf), merkle.root} :
          /\ h # merkle.proof.proof[k]
          /\ merkle' = [merkle EXCEPT !.proof.proof[k] = h, !.changed = "sibling"]
    /\ UNCHANGED <<pipelineVars, otherVars, monitor, verifier, codec, reconnect>>

\* The verify_proof call of lines 384-390 on the proof.
VerifyProof ==
    /\ merkle.proof # Idle
    /\ merkle.verdict = "pending"
    /\ merkle' = [merkle EXCEPT
                    !.verdict = IF verify_proof(merkle.root, merkle.proof.proof,
                                                merkle.proof.number_of_leaves,
                                                merkle.proof.leaf_index,
                                                merkle.proof.leaf)
                                THEN "verified" ELSE "rejected"]
    /\ UNCHANGED <<pipelineVars, otherVars, monitor, verifier, codec, reconnect>>

MerkleNext ==
    \/ BuildProof
    \/ ChangeLeaf
    \/ ChangeSibling
    \/ VerifyProof

SpecMerkle == MerkleInit /\ [][MerkleNext]_vars

\* C17. Merkle soundness: the proof built for leaf index i of validators V
\* carries V[i] and index i, and verifies against the root of V; once its
\* leaf or one of its sibling hashes has been changed it does not verify.
C17_MerkleSoundness ==
    (merkle # Idle /\ merkle.proof # Idle) =>
        /\ merkle.root = merkle_root(merkle.validators)
        /\ merkle.proof.leaf_index = merkle.l
        /\ merkle.proof.number_of_leaves = Len(merkle.validators)
        /\ merkle.changed # "leaf" => merkle.proof.leaf = merkle.validators[merkle.l + 1]
        /\ merkle.verdict # "pending" =>
              (merkle.verdict = "verified" <=> merkle.changed = "nothing")

\* Witness of C17: in a set of six, the proof of leaf 4 (three levels, the
\* last of which has an unpaired node) verified unchanged.
C17_Witness ==
    /\ merkle # Idle
    /\ Len(merkle.validators) = 6
    /\ merkle.l = 4
    /\ merkle.changed = "nothing"
    /\ merkle.verdict = "verified"

\* A changed sibling hash was met by verify_proof and made it fail.
C17_TamperSeen ==
    /\ merkle # Idle
    /\ merkle.changed = "sibling"
    /\ merkle.verdict = "rejected"

\* ------------------------------------------ the protobuf conversions
\* (crates/relayer-types/.../ics10_grandpa/header/beefy_mmr/signed_commitment.rs)
\* Longest payload list and longest signature list of a value.
MaxItems == 2

\* A Vec<u8> of n bytes, all of them b.
Bytes(n, b) == [len |-> n, byte |-> b]

\* Result<T, Error>.
Ok(v) == [ok |-> TRUE, val |-> v]

\* Iterator::collect::<Result<Vec<_>, _>>(): the first Err, or all the values.
collect(results) ==
    IF \E i \in 1..Len(results) : ~results[i].ok
    THEN results[CHOOSE i \in 1..Len(results) :
                    ~results[i].ok /\ \A j \in 1..(i - 1) : results[j].ok]
    ELSE Ok([i \in 1..Len(results) |-> results[i].val])

\* impl From<Signature> for RawSignature, lines 70-77.
RawSignature_from(value) ==
    [message |-> "Signature", index |-> value.index, signature |-> value.signature]

\* impl TryFrom<RawSignature> for Signature, lines 59-68.
Signature_try_from(raw) ==
    Ok([index |-> raw.index, signature |-> raw.signature])

\* impl From<PayloadItem> for RawPayloadItem, lines 140-147.
RawPayloadItem_from(value) ==
    [message |-> "PayloadItem", id |-> value.id, data |-> value.data]

\* impl TryFrom<RawPayloadItem> for PayloadItem, lines 129-138.
PayloadItem_try_from(raw) ==
    Ok([id |-> raw.id, data |-> raw.data])

\* impl From<Commitment> for RawCommitment, lines 108-116.
RawCommitment_from(value) ==
    [message |-> "Commitment",
     payloads |-> [i \in 1..Len(value.payloads) |-> RawPayloadItem_from(value.payloads[i])],
     block_number |-> value.block_number,
     validator_set_id |-> value.validator_set_id]

\* impl TryFrom<RawCommitment> for Commitment, lines 92-106.
Commitment_try_from(raw) ==
    LET payloads == collect([i \in 1..Len(raw.payloads) |->
                                PayloadItem_try_from(raw.payloads[i])])
    IN  IF ~payloads.ok THEN payloads
        ELSE Ok([payloads |-> payloads.val,
                 block_number |-> raw.block_number,
                 validator_set_id |-> raw.validator_set_id])

\* Faulty variant of RawSignedCommitment_from: the signatures are written
\* in reverse order.
RawSignedCommitment_from_reversed(value) ==
    [message |-> "SignedCommitment",
     commitment |-> IF value.commitment.some
                    THEN [some |-> TRUE, val |-> RawCommitment_from(value.commitment.val)]
                    ELSE [some |-> FALSE],
     signatures |-> [i \in 1..Len(value.signatures) |->
                        RawSignature_from(value.signatures[Len(value.signatures) + 1 - i])]]

\* impl From<SignedCommitment> for RawSignedCommitment, lines 39-46.
RawSignedCommitment_from(value) ==
    [message |-> "SignedCommitment",
     commitment |-> IF value.commitment.some
                    THEN [some |-> TRUE, val |-> RawCommitment_from(value.commitment.val)]
                    ELSE [some |-> FALSE],
     signatures |-> [i \in 1..Len(value.signatures) |->
                        RawSignature_from(value.signatures[i])]]

\* impl TryFrom<RawSignedCommitment> for SignedCommitment, lines 21-37.
SignedCommitment_try_from(raw) ==
    LET commitment == IF raw.commitment.some
                      THEN Commitment_try_from(raw.commitment.val)
                      ELSE Ok([some |-> FALSE])
        signatures == collect([i \in 1..Len(raw.signatures) |->
                                  Signature_try_from(raw.signatures[i])])
    IN  IF ~commitment.ok THEN commitment
        ELSE IF ~signatures.ok THEN signatures
        ELSE Ok([commitment |-> IF raw.commitment.some
                                THEN [some |-> TRUE, val |-> commitment.val]
                                ELSE [some |-> FALSE],
                 signatures |-> signatures.val])

\* The values the four struct types can hold: the byte vectors are plain
\* Vec<u8>, of any length.
SignatureValues ==
    {[index |-> i, signature |-> Bytes(n, 1)] : i \in 0..1, n \in {64, 65}}
PayloadItemValues ==
    {[id |-> id, data |-> Bytes(32, 7)] :
        id \in {Bytes(2, "m"), Bytes(2, "h"), Bytes(3, "m")}}
CommitmentValues ==
    {[payloads |-> ps, block_number |-> bn, validator_set_id |-> id] :
        ps \in UNION {[1..n -> PayloadItemValues] : n \in 0..MaxItems},
        bn \in 0..1, id \in 0..1}
SignedCommitmentValues ==
    {[commitment |-> c, signatures |-> sigs] :
        c \in {[some |-> FALSE]} \cup {[some |-> TRUE, val |-> v] : v \in CommitmentValues},
        sigs \in UNION {[1..n -> SignatureValues] : n \in 0..MaxItems}}

\* Either a value to be sent, or a message that has arrived.
CodecInit ==
    /\ NoPipeline
    /\ \E v \in SignedCommitmentValues :
          \/ codec = [stage |-> "value", value |-> v, raw |-> Idle, decoded |-> Idle]
          \/ codec = [stage |-> "raw", value |-> Idle,
                      raw |-> RawSignedCommitment_from(v), decoded |-> Idle]
    /\ verifier = Idle
    /\ merkle = Idle
    /\ reconnect = Idle
    /\ monitor = Idle
    /\ OthersIdle

\* RawSignedCommitment::from(value).
Encode ==
    /\ codec.stage = "value"
    /\ codec' = [codec EXCEPT !.stage = "raw",
                              !.raw = RawSignedCommitment_from(codec.value)]
    /\ UNCHANGED <<pipelineVars, otherVars, monitor, verifier, merkle, reconnect>>

\* SignedCommitment::try_from(raw).
Decode ==
    /\ codec.stage = "raw"
    /\ codec' = [codec EXCEPT !.stage = "decoded",
                              !.decoded = SignedCommitment_try_from(codec.raw)]
    /\ UNCHANGED <<pipelineVars, otherVars, monitor, verifier, merkle, reconnect>>

CodecNext ==
    \/ Encode
    \/ Decode

SpecCodec == CodecInit /\ [][CodecNext]_vars

\* The widths the data model fixes: signatures of 65 bytes, payload ids of
\* 2 bytes.
WidthsRespected(v) ==
    /\ \A i \in 1..Len(v.signatures) : v.signatures[i].signature.len = 65
    /\ v.commitment.some =>
          \A i \in 1..Len(v.commitment.val.payloads) :
             v.commitment.val.payloads[i].id.len = 2

\* C18. Round trip: a valid SignedCommitment that was encoded and decoded
\* comes back as Ok of the same value (commitment absent or present, payloads
\* and signatures in their order, block_number and validator_set_id equal).
C18_RoundTrip ==
    (codec # Idle /\ codec.stage = "decoded" /\ codec.value # Idle
        /\ WidthsRespected(codec.value))
    => /\ codec.decoded.ok
       /\ codec.decoded.val = codec.value
       /\ codec.raw.commitment.some = codec.value.commitment.some
       /\ Len(codec.raw.signatures) = Len(codec.value.signatures)

\* Witness of C18: a value with two different payload items and two
\* different signatures has made the round trip.
C18_Witness ==
    /\ codec # Idle
    /\ codec.stage = "decoded"
    /\ codec.value # Idle
    /\ WidthsRespected(codec.value)
    /\ codec.value.commitment.some
    /\ Len(codec.value.commitment.val.payloads) = 2
    /\ codec.value.commitment.val.payloads[1] # codec.value.commitment.val.payloads[2]
    /\ codec.value.commitment.val.block_number # codec.value.commitment.val.validator_set_id
    /\ Len(codec.value.signatures) = 2
    /\ codec.value.signatures[1] # codec.value.signatures[2]
    /\ codec.decoded = Ok(codec.value)

\* The round trip of the value with no commitment and no signature.
C18_WitnessEmpty ==
    /\ codec # Idle
    /\ codec.stage = "decoded"
    /\ codec.value = [commitment |-> [some |-> FALSE], signatures |-> <<>>]
    /\ codec.decoded = Ok(codec.value)

\* C19. Width validation: whatever has been decoded successfully has
\* signatures of exactly 65 bytes and payload ids of exactly 2 bytes (a
\* message that breaks a width is answered with a decode error).
C19_WidthsValidated ==
    (codec # Idle /\ codec.stage = "decoded" /\ codec.decoded.ok)
    => WidthsRespected(codec.decoded.val)

\* ------------------------------------------- EventMonitor::reconnect
\* (crates/relayer/src/event/substrate_mointor.rs)
\* Durations are whole seconds.
MAX_DELAY == 60
MAX_TOTAL_DELAY == 10 * 60
INITIAL_DELAY == 1

\* Option<Duration>.
NoDelay == [some |-> FALSE]
SomeDelay(d) == [some |-> TRUE, val |-> d]

\* retry::delay::Fibonacci: from(d) starts at (d, d); next() yields curr and
\* moves on to (next, curr + next).
Fibonacci_from(d) == [curr |-> d, next |-> d]
Fibonacci_next(it) ==
    [item |-> it.curr, it |-> [curr |-> it.next, next |-> it.curr + it.next]]

\* crate::util::retry::clamp_total, one next() of the iterator it returns:
\* every delay of the inner strategy is capped at max_delay; the delays stop
\* once their sum has reached max_total_delay, the last one cut so that the
\* sum ends on it.
clamp_total_next(st, max_delay, max_total_delay) ==
    LET inner == Fibonacci_next(st.inner)
        delay == Min(inner.item, max_delay)
        item == IF st.elapsed >= max_total_delay THEN NoDelay
                ELSE IF st.elapsed + delay > max_total_delay
                     THEN SomeDelay(max_total_delay - st.elapsed)
                ELSE SomeDelay(delay)
    IN  [item |-> item, st |-> [inner |-> inner.it, elapsed |-> st.elapsed + delay]]

\* Faulty variant of retry_strategy_next: the total is clamped at twice
\* MAX_TOTAL_DELAY.
retry_strategy_next_loose(st) == clamp_total_next(st, MAX_DELAY, 2 * MAX_TOTAL_DELAY)

\* retry_strategy::default(), lines 43-45: the iterator
\* clamp_total(Fibonacci::from(INITIAL_DELAY), MAX_DELAY, MAX_TOTAL_DELAY),
\* as its starting state and its next().
retry_strategy_default == [inner |-> Fibonacci_from(INITIAL_DELAY), elapsed |-> 0]
retry_strategy_next(st) == clamp_total_next(st, MAX_DELAY, MAX_TOTAL_DELAY)

ReconnectInit ==
    /\ NoPipeline
    /\ reconnect = [step |-> "try_reconnect",
                    strategy |-> retry_strategy_default,
                    tries |-> 1,
                    delays |-> <<>>,
                    client |-> "failed",
                    outcome |-> "running",
                    returned |-> "pending",
                    log |-> ""]
    /\ verifier = Idle
    /\ merkle = Idle
    /\ codec = Idle
    /\ monitor = Idle
    /\ OthersIdle

\* try_reconnect, lines 142-187: a new client is made and swapped in; each
\* from_url but the first is unwrapped.
TryReconnect ==
    /\ reconnect.outcome = "running"
    /\ reconnect.step = "try_reconnect"
    /\ \E para_ok \in BOOLEAN, relay_ok \in BOOLEAN, para_again_ok \in BOOLEAN :
          IF ~para_ok /\ relay_ok
          THEN reconnect' = [reconnect EXCEPT !.client = "SubChainRpc",
                                              !.step = "try_resubscribe"]
          ELSE IF para_ok /\ relay_ok /\ para_again_ok
          THEN reconnect' = [reconnect EXCEPT !.client = "ParachainRpc",
                                              !.step = "try_resubscribe"]
          ELSE reconnect' = [reconnect EXCEPT !.outcome = "panicked"]
    /\ UNCHANGED <<pipelineVars, otherVars, monitor, verifier, merkle, codec>>

\* try_resubscribe succeeds: the closure returns RetryResult::Ok(()), which
\* reconnect logs (lines 217-220) before it returns ().
ResubscribeOk ==
    /\ reconnect.outcome = "running"
    /\ reconnect.step = "try_resubscribe"
    /\ reconnect' = [reconnect EXCEPT !.outcome = "reconnected",
                                    !.returned = "()",
                                    !.log = "info: successfully reconnected"]
    /\ UNCHANGED <<pipelineVars, otherVars, monitor, verifier, merkle, codec>>

\* try_resubscribe fails: the closure returns RetryResult::Retry(()).
ResubscribeErr ==
    /\ reconnect.outcome = "running"
    /\ reconnect.step = "try_resubscribe"
    /\ reconnect' = [reconnect EXCEPT !.step = "retry"]
    /\ UNCHANGED <<pipelineVars, otherVars, monitor, verifier, merkle, codec>>

\* retry_with_index after a Retry: the next delay of the strategy is slept
\* and the closure is called again, or the strategy is exhausted and the
\* error (with the number of tries) is returned to reconnect, which logs it
\* (lines 221-224) and returns ().
NextDelay ==
    /\ reconnect.outcome = "running"
    /\ reconnect.step = "retry"
    /\ LET n == retry_strategy_next(reconnect.strategy)
       IN  IF n.item.some
           THEN reconnect' = [reconnect EXCEPT !.strategy = n.st,
                                               !.delays = Append(@, n.item.val),
                                               !.tries = @ + 1,
                                               !.step = "try_reconnect"]
           ELSE reconnect' = [reconnect EXCEPT !.strategy = n.st,
                                               !.outcome = "gave_up",
                                               !.returned = "()",
                                               !.log = "error: failed to reconnect"]
    /\ UNCHANGED <<pipelineVars, otherVars, monitor, verifier, merkle, codec>>

ReconnectNext ==
    \/ TryReconnect
    \/ ResubscribeOk
    \/ ResubscribeErr
    \/ NextDelay

SpecReconnect == ReconnectInit /\ [][ReconnectNext]_vars

RECURSIVE SumOf(_)
SumOf(q) == IF Len(q) = 0 THEN 0 ELSE q[1] + SumOf(Tail(q))

\* C20. Reconnect bound: at every moment of one reconnect call the delays
\* slept so far add up to at most 600 seconds, and one more attempt than
\* delays has been started.
C20_ReconnectBound ==
    reconnect # Idle =>
        /\ SumOf(reconnect.delays) <= 600
        /\ reconnect.tries = Len(reconnect.delays) + 1

\* Witness of C20: every attempt of the call failed until the strategy was
\* exhausted, and the delays slept add up to the cap.
C20_Witness ==
    /\ reconnect # Idle
    /\ reconnect.outcome = "gave_up"
    /\ SumOf(reconnect.delays) = 600
    /\ Len(reconnect.delays) > 10

\* C21. Retry-budget exhaustion is terminal: the attempts of one reconnect
\* call are finitely many (at most 19 with the default strategy), and when
\* the strategy is exhausted the call hands a terminal error to its caller,
\* for the supervisor to see, rather than returning as after a success.
C21_ExhaustionTerminal ==
    reconnect # Idle =>
        /\ reconnect.tries <= 19
        /\ reconnect.outcome = "gave_up" => reconnect.returned = "Err(terminal)"

\* ------------------------------------------------- EventMonitor::run
\* (crates/relayer/src/event/substrate_mointor.rs)
\* Highest block number the source chain reaches (it starts at 1).
MaxHeight == 2
\* Raw events the event subscriptions deliver in a run.
MaxEvents == 2
\* Event subscriptions opened in a run (calls of run_loop).
MaxSubscriptions == 2

\* The arms of the match of from_raw_event_to_batch_event: those that take
\* the height of the batch from the decoded event (lines 381-910) and those
\* that take the height argument (lines 911-973).
EventHeightKinds ==
    {"CreateClient", "UpdateClient", "ClientMisbehaviour",
     "OpenInitConnection", "OpenTryConnection", "OpenAckConnection",
     "OpenConfirmConnection", "OpenInitChannel", "OpenTryChannel",
     "OpenAckChannel", "OpenConfirmChannel", "CloseInitChannel",
     "CloseConfirmChannel", "SendPacket", "ReceivePacket",
     "WriteAcknowledgement", "AcknowledgePacket", "TimeoutPacket",
     "TimeoutOnClosePacket"}
KnownKinds == EventHeightKinds \cup {"AppModule", "ChainError", "ExtrinsicSuccess"}

\* Raw events a block of height h can carry: a variant name ("Transfer" is
\* outside the known kinds), the height written into the event, and data
\* that decode, do not decode, or decode to bytes that are no UTF-8.
RawEvents(h) ==
    {[variant |-> e[1], height |-> h, data |-> e[2]] :
        e \in {<<"CreateClient", "well_formed">>, <<"CreateClient", "malformed">>,
               <<"AppModule", "malformed">>, <<"ChainError", "bad_utf8">>,
               <<"ExtrinsicSuccess", "well_formed">>, <<"Transfer", "well_formed">>}}

\* Err(e) of Result, and a panic in place of a result.
Err(e) == [ok |-> FALSE, err |-> e]
Panicked == Err("panic")

\* Faulty variant of events_of: the event is pushed twice.
events_of_twice(raw_event) ==
    IF raw_event.variant \in KnownKinds
    THEN <<[kind |-> raw_event.variant], [kind |-> raw_event.variant]>>
    ELSE <<>>

\* The events field of the batch of each arm: vec![event] for a known
\* kind (ExtrinsicSuccess becomes NewBlock), vec![] in the `_` arm.
events_of(raw_event) ==
    IF raw_event.variant = "ExtrinsicSuccess" THEN <<[kind |-> "NewBlock"]>>
    ELSE IF raw_event.variant \in KnownKinds THEN <<[kind |-> raw_event.variant]>>
    ELSE <<>>

\* from_raw_event_to_batch_event, lines 370-981.
from_raw_event_to_batch_event(raw_event, height) ==
    IF raw_event.variant = "AppModule" /\ raw_event.data # "well_formed"
    THEN Panicked
    ELSE IF raw_event.variant \in KnownKinds /\ raw_event.data = "malformed"
    THEN Err("InvalidCodecDecode")
    ELSE IF raw_event.variant = "ChainError" /\ raw_event.data = "bad_utf8"
    THEN Err("InvalidFromUtf8")
    ELSE Ok([height |-> IF raw_event.variant \in EventHeightKinds
                        THEN raw_event.height ELSE height,
             events |-> events_of(raw_event)])

\* Faulty variant of process_batch_for_substrate: the result of try_send is
\* unwrapped.
process_batch_unwrapped(accepted) ==
    IF accepted THEN Ok("()") ELSE Panicked

\* process_batch_for_substrate, lines 314-324: try_send, its error mapped to
\* ChannelSendFailed; accepted is FALSE when the channel is full or closed.
process_batch_for_substrate(accepted) ==
    IF accepted THEN Ok("()") ELSE Err("ChannelSendFailed")

\* Faulty variant of should_publish: empty batches are sent as well.
should_publish_always(batch_event) == TRUE

\* handle_single_event, line 1013: only a batch with events is sent.
should_publish(batch_event) == batch_event.events # <<>>

\* The monitor as `run` finds it: connected, not yet subscribed to events.
MonitorInit ==
    /\ NoPipeline
    /\ monitor = [state |-> "run",
                  subscriptions |-> 0,
                  height |-> 1,
                  tasks |-> <<>>,
                  outbound |-> <<>>,
                  shutdown |-> FALSE,
                  after_shutdown |-> 0,
                  tx_err |-> <<>>,
                  reconnects |-> 0]
    /\ verifier = Idle
    /\ merkle = Idle
    /\ codec = Idle
    /\ reconnect = Idle
    /\ OthersIdle

\* The source chain produces a block.
ChainAdvance ==
    /\ monitor.height < MaxHeight
    /\ monitor' = [monitor EXCEPT !.height = @ + 1]
    /\ UNCHANGED <<pipelineVars, otherVars, verifier, merkle, codec, reconnect>>

\* The supervisor sends MonitorCmd::Shutdown on the command channel.
SendShutdown ==
    /\ ~monitor.shutdown
    /\ monitor' = [monitor EXCEPT !.shutdown = TRUE]
    /\ UNCHANGED <<pipelineVars, otherVars, verifier, merkle, codec, reconnect>>

\* 1 when the step that begins now begins after the shutdown command.
Late == IF monitor.shutdown THEN 1 ELSE 0

\* run calls run_loop (lines 237-238), which subscribes to the events of
\* the client it holds and unwraps the result (line 257).
SubscribeEvents ==
    /\ monitor.state = "run"
    /\ monitor.subscriptions < MaxSubscriptions
    /\ \E ok \in BOOLEAN :
          monitor' = [monitor EXCEPT
                        !.state = IF ok THEN "subscribed" ELSE "panicked",
                        !.subscriptions = @ + 1,
                        !.after_shutdown = @ + Late]
    /\ UNCHANGED <<pipelineVars, otherVars, verifier, merkle, codec, reconnect>>

\* One turn of the while loop, lines 260-277: the next item of the stream
\* holds n raw events, and a task is spawned for each of them.
NextEvents ==
    /\ monitor.state = "subscribed"
    /\ \E n \in 1..(MaxEvents - Len(monitor.tasks)) :
       \E raws \in [1..n -> RawEvents(monitor.height)] :
          monitor' = [monitor EXCEPT
                        !.tasks = @ \o [i \in 1..n |->
                                          [raw_event |-> raws[i],
                                           step |-> "spawned",
                                           height |-> 0,
                                           outcome |-> "",
                                           err |-> ""]],
                        !.after_shutdown = @ + Late]
    /\ UNCHANGED <<pipelineVars, otherVars, verifier, merkle, codec, reconnect>>

\* The stream yields an Err, or a raw event of the item does not parse: the
\* unwrap of line 261 or 264 panics inside block_on.
StreamError ==
    /\ monitor.state = "subscribed"
    /\ monitor' = [monitor EXCEPT !.state = "panicked"]
    /\ UNCHANGED <<pipelineVars, otherVars, verifier, merkle, codec, reconnect>>

\* The stream ends: the while loop is left, run_loop returns Next::Continue
\* (line 279) and run goes round its loop (line 239).
StreamClosed ==
    /\ monitor.state = "subscribed"
    /\ monitor' = [monitor EXCEPT !.state = "run"]
    /\ UNCHANGED <<pipelineVars, otherVars, verifier, merkle, codec, reconnect>>

\* get_latest_height in task t, lines 983-1002: a failed subscribe_blocks
\* panics, the first header gives its number, an Err or the end of the
\* stream gives 0.
QueryHeight ==
    /\ \E t \in 1..Len(monitor.tasks) :
          /\ monitor.tasks[t].step = "spawned"
          /\ \E answer \in {"header", "no_header", "subscribe_failed"} :
                monitor' = [monitor EXCEPT !.tasks[t] =
                    IF answer = "subscribe_failed"
                    THEN [@ EXCEPT !.step = "done", !.outcome = "panicked",
                                   !.err = "subscribe blocks error"]
                    ELSE [@ EXCEPT !.step = "queried",
                                   !.height = IF answer = "header"
                                              THEN monitor.height ELSE 0]]
    /\ UNCHANGED <<pipelineVars, otherVars, verifier, merkle, codec, reconnect>>

\* The rest of handle_single_event in task t, lines 1011-1022: decode, and
\* send the batch if there is one with events; an error of either is logged.
DecodeAndPublish ==
    /\ \E t \in 1..Len(monitor.tasks) :
          /\ monitor.tasks[t].step = "queried"
          /\ \E accepted \in BOOLEAN :
             LET batch_event == from_raw_event_to_batch_event(
                                    monitor.tasks[t].raw_event, monitor.tasks[t].height)
                 send_result == process_batch_for_substrate(accepted)
                 End(outcome, err) ==
                    [monitor.tasks[t] EXCEPT !.step = "done",
                                             !.outcome = outcome, !.err = err]
             IN  IF batch_event = Panicked
                 THEN monitor' = [monitor EXCEPT !.tasks[t] = End("panicked", "decode")]
                 ELSE IF ~batch_event.ok
                 THEN monitor' = [monitor EXCEPT
                                    !.tasks[t] = End("decode_error", batch_event.err)]
                 ELSE IF ~should_publish(batch_event.val)
                 THEN monitor' = [monitor EXCEPT !.tasks[t] = End("nothing_to_send", "")]
                 ELSE IF send_result = Panicked
                 THEN monitor' = [monitor EXCEPT !.tasks[t] = End("panicked", "send")]
                 ELSE IF ~send_result.ok
                 THEN monitor' = [monitor EXCEPT !.tasks[t] = End("send_failed", send_result.err)]
                 ELSE monitor' = [monitor EXCEPT
                                    !.tasks[t] = End("published", ""),
                                    !.outbound = Append(@, [task |-> t,
                                                            batch |-> batch_event.val])]
    /\ UNCHANGED <<pipelineVars, otherVars, verifier, merkle, codec, reconnect>>

\* The loop of run and run_loop, with the command channel beside it.
MonitorNext ==
    \/ SendShutdown
    \/ SubscribeEvents
    \/ NextEvents
    \/ StreamError
    \/ StreamClosed

SpecMonitor == MonitorInit /\ [][MonitorNext]_vars

\* The monitor inside the while loop of run_loop, its first subscription open.
EventsInit ==
    /\ NoPipeline
    /\ monitor = [state |-> "subscribed",
                  subscriptions |-> 1,
                  height |-> 1,
                  tasks |-> <<>>,
                  outbound |-> <<>>,
                  shutdown |-> FALSE,
                  after_shutdown |-> 0,
                  tx_err |-> <<>>,
                  reconnects |-> 0]
    /\ verifier = Idle
    /\ merkle = Idle
    /\ codec = Idle
    /\ reconnect = Idle
    /\ OthersIdle

\* The events of an open subscription and the tasks spawned for them.
EventsNext ==
    \/ ChainAdvance
    \/ NextEvents
    \/ QueryHeight
    \/ DecodeAndPublish

SpecEvents == EventsInit /\ [][EventsNext]_vars

\* C22. Reconnect before resuming: the monitor consumes events of a later
\* subscription only after a reconnect for every subscription that closed
\* before it, and an error of the stream leaves it alive to reconnect.
C22_ReconnectBeforeResume ==
    monitor # Idle =>
        /\ monitor.state = "subscribed" =>
              monitor.reconnects >= monitor.subscriptions - 1
        /\ monitor.state # "panicked"

\* C23. Cooperative shutdown: once the shutdown command has been sent, at
\* most the step in progress is finished; no second subscription or stream
\* item is taken up after it.
C23_CooperativeShutdown ==
    (monitor # Idle /\ monitor.shutdown) => monitor.after_shutdown <= 1

\* Positions of the outbound channel holding a batch sent by task t.
TaskBatches(t) ==
    {i \in 1..Len(monitor.outbound) : monitor.outbound[i].task = t}

\* Task t has run handle_single_event past get_latest_height and to its end.
Handled(t) ==
    /\ monitor.tasks[t].step = "done"
    /\ monitor.tasks[t].err # "subscribe blocks error"

\* C24. The heights of the batches on the outbound channel never decrease
\* along the channel.
C24_HeightMonotonic ==
    monitor # Idle =>
        \A i \in 1..Len(monitor.outbound) :
           \A j \in i..Len(monitor.outbound) :
              monitor.outbound[i].batch.height <= monitor.outbound[j].batch.height

\* C25. Every published batch carries the height that the task which
\* decoded it got from its own get_latest_height query.
C25_FreshHeight ==
    monitor # Idle =>
        \A i \in 1..Len(monitor.outbound) :
           monitor.outbound[i].batch.height =
               monitor.tasks[monitor.outbound[i].task].height

\* C26. A malformed payload of a known kind ends the handling of that event
\* with the decode error InvalidCodecDecode and without a batch; nothing
\* panics, and the other events are handled on their own.
C26_MalformedIsolated ==
    monitor # Idle =>
        \A t \in 1..Len(monitor.tasks) :
           (/\ Handled(t)
            /\ monitor.tasks[t].raw_event.variant \in KnownKinds
            /\ monitor.tasks[t].raw_event.data = "malformed")
           => /\ monitor.tasks[t].outcome = "decode_error"
              /\ monitor.tasks[t].err = "InvalidCodecDecode"
              /\ TaskBatches(t) = {}

Publishable(t) ==
    LET r == from_raw_event_to_batch_event(monitor.tasks[t].raw_event,
                                           monitor.tasks[t].height)
    IN  r.ok /\ r.val.events # <<>>

\* C28. Publishing neither blocks nor panics: a task that has a batch to
\* send ends either with the batch on the channel or, when the channel did
\* not take it, with the local error ChannelSendFailed.
C28_PublishNonBlocking ==
    monitor # Idle =>
        \A t \in 1..Len(monitor.tasks) :
           (Handled(t) /\ Publishable(t)) =>
              \/ /\ monitor.tasks[t].outcome = "published"
                 /\ TaskBatches(t) # {}
              \/ /\ monitor.tasks[t].outcome = "send_failed"
                 /\ monitor.tasks[t].err = "ChannelSendFailed"
                 /\ TaskBatches(t) = {}

\* Witness of C28: the channel refused the batch of the first task, which
\* ended with ChannelSendFailed, and the second task published after it.
C28_Witness ==
    /\ monitor # Idle
    /\ Len(monitor.tasks) = 2
    /\ monitor.tasks[1].outcome = "send_failed"
    /\ monitor.tasks[1].err = "ChannelSendFailed"
    /\ monitor.tasks[2].outcome = "published"

\* C29. A ChannelSendFailed is escalated: whenever a batch could not be
\* sent, an error is on the monitor's error channel and the monitor has
\* gone into a reconnect.
C29_SendFailureEscalated ==
    monitor # Idle =>
        \A t \in 1..Len(monitor.tasks) :
           monitor.tasks[t].outcome = "send_failed" =>
              /\ monitor.tx_err # <<>>
              /\ monitor.reconnects > 0

\* The canonical event kind a raw event of a known kind stands for.
CanonicalKind(raw_event) ==
    IF raw_event.variant = "ExtrinsicSuccess" THEN "NewBlock" ELSE raw_event.variant

\* C30. One batch per decoded event: every batch on the outbound channel
\* holds exactly one event, the canonical event of the raw event of the
\* task that sent it, and no task has more than one batch on the channel.
C30_OneBatchPerEvent ==
    monitor # Idle =>
        /\ \A i \in 1..Len(monitor.outbound) :
              LET t == monitor.outbound[i].task
              IN  /\ monitor.tasks[t].raw_event.variant \in KnownKinds
                  /\ Len(monitor.outbound[i].batch.events) = 1
                  /\ monitor.outbound[i].batch.events[1].kind =
                        CanonicalKind(monitor.tasks[t].raw_event)
        /\ \A t \in 1..Len(monitor.tasks) :
              /\ Cardinality(TaskBatches(t)) <= 1
              /\ monitor.tasks[t].outcome = "published" <=> TaskBatches(t) # {}

\* Witness of C30: two events of known kinds were decoded and each has its
\* own batch on the channel.
C30_Witness ==
    /\ monitor # Idle
    /\ Len(monitor.outbound) = 2
    /\ monitor.outbound[1].task # monitor.outbound[2].task
    /\ monitor.outbound[1].batch.events # monitor.outbound[2].batch.events

\* ------------------------------------------------ claims C31 to C40
\* C33. No caching across commitments in service mode: the list the MmrRoot
\* of a commitment is submitted to is the list of matching clients the
\* destination chain holds when get_client_ids is called for that
\* commitment, and every attempt carries the commitment just taken with an
\* MMR leaf and proof generated at that commitment's own block.
C33_NoCaching ==
    /\ [][(mode = "service" /\ pc = "get_client_ids" /\ pc' = "submit") =>
             client_ids' = get_client_ids(ClientStatesOf(client_count), "Grandpa")]_vars
    /\ [](mode = "service" =>
             \A i \in 1..Len(sent) :
                /\ sent[i].mmr_root.mmr_leaf.at = SomeHash(SentBlockNumber(sent[i]))
                /\ sent[i].mmr_root.mmr_leaf_proof.at = SomeHash(SentBlockNumber(sent[i]))
                /\ sent[i].n = delivered =>
                      sent[i].mmr_root.signed_commitment = signed_commitment)

\* Witness of C33: the second commitment was submitted to a client that got
\* no attempt for the first one, which was submitted to another client.
C33_Witness ==
    /\ mode = "service"
    /\ \E i, j \in 1..Len(sent) :
          /\ sent[i].n = 1
          /\ sent[j].n = 2
          /\ AttemptCount(1, sent[j].client_id) = 0
          /\ SentBlockNumber(sent[i]) # SentBlockNumber(sent[j])

\* C37. For every block_number that passes the finality guard of
\* build_mmr_proof, block number 0 included, block_number - 1 is computed
\* without underflow: the task does not abort on the subtraction, and no
\* leaf is requested for the wrapped target index.
C37_NoUnderflow ==
    GuardPassed =>
        /\ panic_cause # "SubtractOverflow"
        /\ target_height # U32_MAX
        /\ \A i \in 1..Len(calls) :
              calls[i].op = "mmr_generate_proof" => calls[i].leaf_of # U32_MAX

\* The result of verify_commitment_signatures on the frame's signature
\* list, root and proofs over the window of n positions from position s.
WindowResult(s, n) ==
    verify_trace(verifier.signatures, verifier.validator_set_root,
                 verifier.validator_proofs, s + 1,
                 Min(Len(verifier.signatures), s + n), <<>>).result

\* C34. Window checking composes: for every split of the window of the call
\* into a first part of a positions and a second part of b positions, the
\* call over the whole window returns Ok if and only if the calls over the
\* two parts both return Ok.
C34_WindowsCompose ==
    Verified =>
        \A a \in 0..verifier.interations :
           LET b == verifier.interations - a
           IN  (verifier.result = "Ok")
               <=> (/\ WindowResult(verifier.start_position, a) = "Ok"
                    /\ WindowResult(verifier.start_position + a, b) = "Ok")

\* Witness of C34: a window of three positions that splits into parts that
\* each hold a signature, the whole window accepted.
C34_Witness ==
    /\ Verified
    /\ verifier.result = "Ok"
    /\ verifier.start_position = 0
    /\ verifier.interations = 3
    /\ PresentWindow = {1, 3}

\* Present positions of the window whose signature fails a step.
FailingWindow ==
    {p \in PresentWindow :
        verify_signature(verifier.signatures[p], verifier.validator_set_root,
                         verifier.validator_proofs) # "Ok"}

\* C36. The present signatures of the window are examined in increasing
\* position order up to the first one that fails: the call returns Ok iff
\* none of them fails, and otherwise the error of the failing signature of
\* lowest position, with no signature after it examined.
C36_FirstFailure ==
    Verified =>
        /\ \A i, j \in 1..Len(verifier.examined) :
              i < j => verifier.examined[i] < verifier.examined[j]
        /\ (verifier.result = "Ok") <=> (FailingWindow = {})
        /\ IF FailingWindow = {}
           THEN SeqRange(verifier.examined) = PresentWindow
           ELSE LET first == CHOOSE p \in FailingWindow : \A q \in FailingWindow : p <= q
                IN  /\ verifier.result =
                          verify_signature(verifier.signatures[first],
                                           verifier.validator_set_root,
                                           verifier.validator_proofs)
                    /\ SeqRange(verifier.examined) = {p \in PresentWindow : p <= first}

\* Witness of C36: a signature that passes, then one that fails, then one
\* that would fail with another error and is never examined.
C36_Witness ==
    /\ Verified
    /\ Cardinality(FailingWindow) = 2
    /\ verifier.examined = <<1, 2>>
    /\ verifier.result = "WrongSignature"
    /\ verify_signature(verifier.signatures[3], verifier.validator_set_root,
                        verifier.validator_proofs) = "ValidatorNotFound"

\* ------------------------------------------------------------ sort_events
\* (crates/relayer/src/event/substrate_mointor.rs, lines 337-346)
\* Longest event list handed to sort_events.
MaxSortLen == 4

\* The event lists sorted: each event has a kind and, to tell equal kinds
\* apart, the position it had in the list.
EventLists ==
    UNION {{[i \in 1..n |-> [kind |-> kinds[i], id |-> i]] :
               kinds \in [1..n -> {"NewBlock", "UpdateClient", "SendPacket"}]} :
           n \in 0..MaxSortLen}

\* Faulty variant of compare: a NewBlock on the right is Less as well.
compare_either(a, b) ==
    IF a.kind = "NewBlock" \/ b.kind = "NewBlock" THEN "Less" ELSE "Equal"

\* The closure of lines 342-345: Less when the left event is a NewBlock,
\* Equal in every other case.
compare(a, b) == IF a.kind = "NewBlock" THEN "Less" ELSE "Equal"

\* slice::sort_by on a short slice (up to 20 elements) is an insertion sort:
\* the element after the sorted front moves left while it compares Less
\* than the element before it.
RECURSIVE insert_tail(_, _)
insert_tail(front, tail) ==
    IF front = <<>> \/ compare(tail, front[Len(front)]) # "Less"
    THEN Append(front, tail)
    ELSE Append(insert_tail(SubSeq(front, 1, Len(front) - 1), tail), front[Len(front)])

RECURSIVE sort_events(_)
sort_events(events) ==
    IF events = <<>> THEN <<>>
    ELSE insert_tail(sort_events(SubSeq(events, 1, Len(events) - 1)), events[Len(events)])

SorterInit ==
    /\ NoPipeline
    /\ \E events \in EventLists :
          sorter = [input |-> events, events |-> events, sorted |-> FALSE]
    /\ verifier = Idle
    /\ merkle = Idle
    /\ codec = Idle
    /\ reconnect = Idle
    /\ monitor = Idle
    /\ subscription = Idle
    /\ runtime = Idle
    /\ transfer = Idle

\* sort_events sorts the list of the frame in place.
SortEvents ==
    /\ ~sorter.sorted
    /\ sorter' = [sorter EXCEPT !.events = sort_events(@), !.sorted = TRUE]
    /\ UNCHANGED <<pipelineVars, componentVars, subscription, runtime, transfer>>

SpecSorter == SorterInit /\ [][SortEvents]_vars

\* The events of a list that are not NewBlock events, in list order.
NotNewBlock(e) == e.kind # "NewBlock"
Others(events) == SelectSeq(events, NotNewBlock)

MaxCommands == 3

\* HandleInput values as the loop tells them apart: Terminate, Query with
\* its path (provable or not) and its prove flag, and Subscribe for the
\* commands whose handler is todo!().  listening is FALSE when the requester
\* has dropped the receiver of reply_to.
HandleInputs ==
    {[kind |-> "Terminate", provable |-> TRUE, prove |-> FALSE, listening |-> l] :
        l \in BOOLEAN}
    \cup {[kind |-> "Subscribe", provable |-> TRUE, prove |-> FALSE, listening |-> TRUE]}
    \cup {[kind |-> "Query", provable |-> pv, prove |-> pr, listening |-> l] :
             pv \in BOOLEAN, pr \in BOOLEAN, l \in BOOLEAN}

\* Faulty variant of non_provable: the test is left out, every query goes
\* to the chain.
non_provable_never(provable, prove) == FALSE

\* runtime.rs line 158, cosmos.rs line 102: !path.is_provable() & prove.
non_provable(provable, prove) == (~provable) /\ prove

RuntimeInit ==
    /\ NoPipeline
    /\ runtime = [state |-> "running",
                  receiver |-> <<>>,
                  arrived |-> 0,
                  handled |-> <<>>,
                  chain_queries |-> <<>>,
                  direct |-> <<>>]
    /\ verifier = Idle
    /\ merkle = Idle
    /\ codec = Idle
    /\ reconnect = Idle
    /\ monitor = Idle
    /\ subscription = Idle
    /\ sorter = Idle
    /\ transfer = Idle

\* A holder of the handle sends a command; the channel is unbounded.
SendCommand ==
    /\ runtime.state = "running"
    /\ runtime.arrived < MaxCommands
    /\ \E input \in HandleInputs :
          runtime' = [runtime EXCEPT
                        !.arrived = @ + 1,
                        !.receiver = Append(@, [input |-> input, n |-> runtime.arrived + 1])]
    /\ UNCHANGED <<pipelineVars, componentVars, subscription, sorter, transfer>>

\* Faulty variant of RunLoop: after the reply to Terminate the loop goes on
\* (the break of line 73 is missing).
RunLoop_no_break ==
    /\ runtime.state = "running"
    /\ runtime.receiver # <<>>
    /\ LET event == Head(runtime.receiver)
       IN  runtime' = [runtime EXCEPT
                         !.receiver = Tail(@),
                         !.handled = Append(@, [n |-> event.n, input |-> event.input,
                                                reply |-> "Ok(())", queries |-> 0])]
    /\ UNCHANGED <<pipelineVars, componentVars, subscription, sorter, transfer>>

\* One turn of the loop of run, lines 68-142: receive the next command and
\* handle it.  Terminate: reply Ok(()) and break, run returns Ok(()) (line
\* 144).  Query: ChainRuntime::query, lines 151-177.  Subscribe: todo!().
\* A reply that cannot be sent is returned as Err(Kind::Channel) by `?`.
RunLoop ==
    /\ runtime.state = "running"
    /\ runtime.receiver # <<>>
    /\ \E response \in {"Ok(response)", "Err(rpc)"} :
          LET event == Head(runtime.receiver)
              input == event.input
              asks == input.kind = "Query" /\ ~non_provable(input.provable, input.prove)
              answer == IF input.kind = "Terminate" THEN "Ok(())"
                        ELSE IF input.kind = "Subscribe" THEN "none"
                        ELSE IF asks THEN response
                        ELSE "Err(NonProvableData)"
              reply == IF input.kind # "Subscribe" /\ ~input.listening
                       THEN "undelivered" ELSE answer
          IN  runtime' = [runtime EXCEPT
                            !.receiver = Tail(@),
                            !.state = IF input.kind = "Subscribe" THEN "panicked"
                                      ELSE IF ~input.listening THEN "returned_err"
                                      ELSE IF input.kind = "Terminate" THEN "returned_ok"
                                      ELSE "running",
                            !.chain_queries = IF asks THEN Append(@, event.n) ELSE @,
                            !.handled = Append(@, [n |-> event.n, input |-> input,
                                                   reply |-> reply,
                                                   queries |-> IF asks THEN 1 ELSE 0])]
    /\ UNCHANGED <<pipelineVars, componentVars, subscription, sorter, transfer>>

\* CosmosSDKHandle::query, cosmos.rs lines 96-114: NonProvableData without
\* a query, else one abci_query whose error or value is returned.  The
\* handle is called once, at any moment of the run.
CosmosQuery ==
    /\ runtime.direct = <<>>
    /\ \E provable \in BOOLEAN, prove \in BOOLEAN, response \in {"Ok(response)", "Err(rpc)"} :
          LET asks == ~non_provable(provable, prove)
          IN  runtime' = [runtime EXCEPT
                            !.direct = Append(@, [provable |-> provable, prove |-> prove,
                                                  queries |-> IF asks THEN 1 ELSE 0,
                                                  response |-> response,
                                                  returned |-> IF asks THEN response
                                                               ELSE "Err(NonProvableData)"])]
    /\ UNCHANGED <<pipelineVars, componentVars, subscription, sorter, transfer>>

RuntimeNext ==
    \/ SendCommand
    \/ RunLoop
    \/ CosmosQuery

SpecRuntime == RuntimeInit /\ [][RuntimeNext]_vars

\* C38. ChainRuntime.run handles the commands one at a time in arrival
\* order; a Terminate is answered with Ok(()), ends the loop and makes run
\* return Ok (Err(Channel) when its requester is gone and the answer cannot
\* be sent), and no command that arrived after it is ever handled.
C38_ArrivalOrderAndTerminate ==
    runtime # Idle =>
        /\ \A i \in 1..Len(runtime.handled) : runtime.handled[i].n = i
        /\ \A i \in 1..Len(runtime.receiver) :
              runtime.receiver[i].n = Len(runtime.handled) + i
        /\ \A i \in 1..Len(runtime.handled) :
              runtime.handled[i].input.kind = "Terminate" =>
                 /\ i = Len(runtime.handled)
                 /\ runtime.state # "running"
                 /\ runtime.handled[i].input.listening =>
                       /\ runtime.handled[i].reply = "Ok(())"
                       /\ runtime.state = "returned_ok"
                 /\ ~runtime.handled[i].input.listening =>
                       runtime.state = "returned_err"
        /\ runtime.state = "returned_ok" =>
              /\ runtime.handled # <<>>
              /\ runtime.handled[Len(runtime.handled)].input.kind = "Terminate"

\* Witness of C38: a query was handled, then Terminate was answered and run
\* returned Ok while a command that arrived after it is left in the channel.
C38_Witness ==
    /\ runtime # Idle
    /\ runtime.state = "returned_ok"
    /\ Len(runtime.handled) = 2
    /\ runtime.handled[1].input.kind = "Query"
    /\ runtime.handled[2].reply = "Ok(())"
    /\ Len(runtime.receiver) = 1

\* C39. A query with prove set for a path that is not provable is answered
\* with NonProvableData and the chain is not queried for it; for every
\* other query the chain is queried exactly once and its response is the
\* answer, both in ChainRuntime::query and in CosmosSDKHandle::query.
C39_NonProvable ==
    runtime # Idle =>
        /\ \A i \in 1..Len(runtime.handled) :
              LET h == runtime.handled[i]
                  asked == Cardinality({j \in 1..Len(runtime.chain_queries) :
                                          runtime.chain_queries[j] = h.n})
              IN  /\ asked = h.queries
                  /\ h.input.kind = "Query" =>
                        IF (~h.input.provable) /\ h.input.prove
                        THEN /\ asked = 0
                             /\ h.input.listening => h.reply = "Err(NonProvableData)"
                        ELSE /\ asked = 1
                             /\ h.input.listening => h.reply \in {"Ok(response)", "Err(rpc)"}
                  /\ h.input.kind # "Query" => asked = 0
        /\ \A i \in 1..Len(runtime.direct) :
              LET d == runtime.direct[i]
              IN  IF (~d.provable) /\ d.prove
                  THEN d.queries = 0 /\ d.returned = "Err(NonProvableData)"
                  ELSE d.queries = 1 /\ d.returned = d.response

\* Witness of C39: the runtime has refused a query with proof for a path
\* that is not provable and has passed on the chain's answer to another
\* query; the handle has refused one as well.
C39_Witness ==
    /\ runtime # Idle
    /\ \E i, j \in 1..Len(runtime.handled) :
          /\ runtime.handled[i].reply = "Err(NonProvableData)"
          /\ runtime.handled[j].reply = "Ok(response)"
          /\ runtime.handled[j].input.prove
    /\ \E i \in 1..Len(runtime.direct) : runtime.direct[i].returned = "Err(NonProvableData)"

\* ---------------------------------------------------------- send_transfer
\* (modules/src/applications/ics20_fungible_token_transfer/
\* relay_application_logic/send_transfer.rs)
\* Largest amount of a token, in a message and on the sender's account.
MaxAmount == 2

\* The bank of the context before the call: the sender holds `balance`.
BankOf(balance) == [sender |-> balance, escrow |-> 0, module |-> 0, burned |-> 0]

\* Ok(bank) of a bank operation, or its error with the bank as it was.
BankResult(ok, bank) == [ok |-> ok, bank |-> bank]

\* BankKeeper::send_coins from the sender to the escrow address.
send_coins(bank, amount) ==
    IF bank.sender < amount THEN BankResult(FALSE, bank)
    ELSE BankResult(TRUE, [bank EXCEPT !.sender = @ - amount, !.escrow = @ + amount])

\* BankKeeper::send_coins_from_account_to_module followed by burn_coins on
\* the transfer account.
send_to_module_and_burn(bank, amount) ==
    IF bank.sender < amount THEN BankResult(FALSE, bank)
    ELSE BankResult(TRUE, [bank EXCEPT !.sender = @ - amount, !.burned = @ + amount])

\* send_transfer, lines 14-101, on a context ctx (what its readers answer,
\* and its bank) and a message msg: the result and the bank it leaves.
send_transfer(ctx, msg) ==
    LET Returns(result, bank) == [result |-> result, bank |-> bank]
        moved == IF msg.source = "Sender" THEN send_coins(ctx.bank, msg.amount)
                 ELSE send_to_module_and_burn(ctx.bank, msg.amount)
    IN  IF ~ctx.send_enabled THEN Returns("SendDisabled", ctx.bank)
        ELSE IF ctx.channel_end = "not_found" THEN Returns("Ics04Channel", ctx.bank)
        ELSE IF ctx.channel_end = "no_counterparty_channel"
             THEN Returns("DestinationChannelNotFound", ctx.bank)
        ELSE IF ~ctx.sequence_found THEN Returns("Ics04Channel", ctx.bank)
        ELSE IF msg.token = "hashed_without_trace" THEN Returns("TraceNotFound", ctx.bank)
        ELSE IF ~msg.sender_parses THEN Returns("SenderParse", ctx.bank)
        ELSE IF msg.source = "Sender" /\ ~ctx.escrow_address_found
             THEN Returns("EscrowAddress", ctx.bank)
        ELSE IF ~moved.ok THEN Returns("Bank", moved.bank)
        ELSE IF ~msg.receiver_parses THEN Returns("ReceiverParse", moved.bank)
        ELSE IF ~ctx.send_packet_ok THEN Returns("Ics04Channel", moved.bank)
        ELSE Returns("Ok", moved.bank)

TransferInit ==
    /\ NoPipeline
    /\ \E send_enabled \in BOOLEAN, sequence_found \in BOOLEAN,
          escrow_address_found \in BOOLEAN, send_packet_ok \in BOOLEAN,
          channel_end \in {"found", "not_found", "no_counterparty_channel"},
          balance \in 0..MaxAmount, amount \in 1..MaxAmount,
          token \in {"base", "hashed", "hashed_without_trace"},
          source \in {"Sender", "Receiver"},
          sender_parses \in BOOLEAN, receiver_parses \in BOOLEAN :
          transfer = [ctx |-> [send_enabled |-> send_enabled,
                               channel_end |-> channel_end,
                               sequence_found |-> sequence_found,
                               escrow_address_found |-> escrow_address_found,
                               send_packet_ok |-> send_packet_ok,
                               bank |-> BankOf(balance)],
                      msg |-> [token |-> token, amount |-> amount, source |-> source,
                               sender_parses |-> sender_parses,
                               receiver_parses |-> receiver_parses],
                      bank_before |-> BankOf(balance),
                      result |-> "pending"]
    /\ verifier = Idle
    /\ merkle = Idle
    /\ codec = Idle
    /\ reconnect = Idle
    /\ monitor = Idle
    /\ subscription = Idle
    /\ sorter = Idle
    /\ runtime = Idle

\* send_transfer runs on the context and the message of the frame.
SendTransfer ==
    /\ transfer.result = "pending"
    /\ LET out == send_transfer(transfer.ctx, transfer.msg)
       IN  transfer' = [transfer EXCEPT !.result = out.result, !.ctx.bank = out.bank]
    /\ UNCHANGED <<pipelineVars, componentVars, subscription, sorter, runtime>>

SpecTransfer == TransferInit /\ [][SendTransfer]_vars

\* C40. send_transfer leaves the bank unchanged on error: whenever it
\* returns an error, no coins have left the sender's account for the escrow
\* account or the module account, and none have been burned.
C40_ErrorLeavesBank ==
    (transfer # Idle /\ transfer.result \notin {"pending", "Ok"}) =>
        transfer.ctx.bank = transfer.bank_before

\* ------------------------------------------ EventMonitor::init_subscriptions
\* (crates/relayer/src/event/substrate_mointor.rs, lines 115-134)
\* Calls of init_subscriptions on one monitor.
MaxInitCalls == 4

\* The monitor as EventMonitor::new leaves it (lines 98-108): connected
\* through one of the two kinds of client, block_sub an empty stream.
SubscriptionInit ==
    /\ NoPipeline
    /\ \E client \in {"SubChainRpc", "ParachainRpc"} :
          subscription = [client |-> client,
                          block_sub |-> "Ok(empty)",
                          state |-> "created",
                          calls |-> <<>>]
    /\ verifier = Idle
    /\ merkle = Idle
    /\ codec = Idle
    /\ reconnect = Idle
    /\ monitor = Idle
    /\ sorter = Idle
    /\ runtime = Idle
    /\ transfer = Idle

\* init_subscriptions, lines 115-134: todo!() with a ParachainRpc client;
\* with a SubChainRpc client the result of subscribe_finalized is stored in
\* block_sub as it comes, and Ok(()) is returned.
InitSubscriptions ==
    /\ subscription.state # "panicked"
    /\ Len(subscription.calls) < MaxInitCalls
    /\ IF subscription.client = "ParachainRpc"
       THEN subscription' = [subscription EXCEPT !.state = "panicked"]
       ELSE \E answer \in {"Ok(stream)", "Err(rpc)", "Err(connection closed)"} :
               subscription' = [subscription EXCEPT
                                  !.state = "returned",
                                  !.block_sub = answer,
                                  !.calls = Append(@, [answer |-> answer,
                                                       returned |-> "Ok(())"])]
    /\ UNCHANGED <<pipelineVars, componentVars, sorter, runtime, transfer>>

SpecSubscription == SubscriptionInit /\ [][InitSubscriptions]_vars

\* C31. init_subscriptions returns a ConnectionError when the subscription
\* cannot be opened and Ok only when the monitor holds an open
\* subscription: no call returns Ok(()) on an error of the subscription,
\* the stored subscription is no error after a call that returned Ok(()),
\* and the call does not abort.
C31_InitSubscriptions ==
    subscription # Idle =>
        /\ \A i \in 1..Len(subscription.calls) :
              LET call == subscription.calls[i]
              IN  IF call.answer = "Ok(stream)"
                  THEN call.returned = "Ok(())"
                  ELSE call.returned = "Err(ConnectionError)"
        /\ (/\ subscription.calls # <<>>
            /\ subscription.calls[Len(subscription.calls)].returned = "Ok(())")
           => subscription.block_sub = "Ok(stream)"
        /\ subscription.state # "panicked"

====
